---- MODULE Spec2Model ----
(***************************************************************************)
(* Verification model of the HLK-LD2420 core library: the one-shot RX      *)
(* buffer parser (core/ld2420.c) and the streaming frame assembler         *)
(* (ld2420_stream.c / ld2420_stream.h), built for a little-endian host     *)
(* (LD2420_PLATFORM_BE undefined, the default build); the parser is also   *)
(* modelled as built with LD2420_PLATFORM_BE.  The TX helpers that create  *)
(* and serialise a command packet are modelled as well.                    *)
(*                                                                         *)
(* Bytes are integers 0..255.  The C array buffer[154] is the sequence     *)
(* s.buffer of length 154; C offset o is TLA+ position o + 1.              *)
(***************************************************************************)
EXTENDS Integers, Sequences, FiniteSets, TLC

(***************************************************************************)
(* Protocol constants (ld2420.h)                                           *)
(***************************************************************************)
LD2420_MIN_RX_PACKET_SIZE == 14
LD2420_MAX_RX_PACKET_SIZE == 154

LD2420_BEG_COMMAND_PACKET == <<253, 252, 251, 250>>   \* FD FC FB FA
LD2420_END_COMMAND_PACKET == <<4, 3, 2, 1>>           \* 04 03 02 01

\* ld2420_status_t, in declaration order
LD2420_STATUS_OK == 0
LD2420_STATUS_ERROR_UNKNOWN == 1
LD2420_STATUS_ERROR_INVALID_PACKET == 2
LD2420_STATUS_ERROR_INVALID_BUFFER == 3
LD2420_STATUS_ERROR_INVALID_BUFFER_SIZE == 4
LD2420_STATUS_ERROR_INVALID_FRAME == 5
LD2420_STATUS_ERROR_INVALID_FRAME_SIZE == 6
LD2420_STATUS_ERROR_BUFFER_TOO_SMALL == 7
LD2420_STATUS_ERROR_INVALID_HEADER == 8
LD2420_STATUS_ERROR_INVALID_FOOTER == 9
LD2420_STATUS_ERROR_INVALID_ARGUMENTS == 10
LD2420_STATUS_ERROR_ALREADY_INITIALIZED == 11

\* The values of the enumeration
ld2420_status_t ==
    {LD2420_STATUS_OK, LD2420_STATUS_ERROR_UNKNOWN,
     LD2420_STATUS_ERROR_INVALID_PACKET, LD2420_STATUS_ERROR_INVALID_BUFFER,
     LD2420_STATUS_ERROR_INVALID_BUFFER_SIZE,
     LD2420_STATUS_ERROR_INVALID_FRAME, LD2420_STATUS_ERROR_INVALID_FRAME_SIZE,
     LD2420_STATUS_ERROR_BUFFER_TOO_SMALL, LD2420_STATUS_ERROR_INVALID_HEADER,
     LD2420_STATUS_ERROR_INVALID_FOOTER, LD2420_STATUS_ERROR_INVALID_ARGUMENTS,
     LD2420_STATUS_ERROR_ALREADY_INITIALIZED}

\* sizeof(LD2420_BEG_COMMAND_PACKET), sizeof(LD2420_END_COMMAND_PACKET)
HeaderSize == Len(LD2420_BEG_COMMAND_PACKET)
FooterSize == Len(LD2420_END_COMMAND_PACKET)

\* #define PACKET_CMD_ECHO_OFFSET / PACKET_STATUS_OFFSET
PACKET_CMD_ECHO_OFFSET == HeaderSize + 2
PACKET_STATUS_OFFSET == PACKET_CMD_ECHO_OFFSET + 2

(***************************************************************************)
(* C helpers                                                               *)
(***************************************************************************)
\* (uint8_t)x and (uint16_t)x
U8(x) == x % 256
U16(x) == x % 65536

\* memcmp(&buf[off], pat, sizeof(pat)) == 0
MemEq(buf, off, pat) ==
    \A k \in 1..Len(pat) : buf[off + k] = pat[k]

\* memmove(buf, &buf[from], n): the first n bytes become buf[from..from+n-1]
MemMoveFront(buf, from, n) ==
    [j \in 1..Len(buf) |-> IF j <= n THEN buf[from + j] ELSE buf[j]]

\* *(uint16_t *)(buf + off) on a little-endian host; equal to read_le16
ReadU16(buf, off) == buf[off + 1] + 256 * buf[off + 2]

(***************************************************************************)
(* One-shot parser, core/ld2420.c                                          *)
(***************************************************************************)
\* __get_frame_size__: writes *out_intra_frame_data_size, then rejects 0
get_frame_size(buf) ==
    LET v == ReadU16(buf, HeaderSize)
    IN  [ret |-> IF v = 0 THEN LD2420_STATUS_ERROR_INVALID_FRAME_SIZE
                 ELSE LD2420_STATUS_OK,
         out_intra_frame_data_size |-> v]

\* The uint8_t expected_buffer_size of __validate_packet__
ExpectedBufferSize(intra_frame_data_size) ==
    U8(HeaderSize + 2 + intra_frame_data_size + FooterSize)

\* The footer comparison at offset off.  buf holds the n bytes of memory
\* from the buffer pointer on that are modelled (the buffer itself and what
\* lies behind it); a read past those n bytes compares unequal.
FooterAt(buf, n, off) ==
    /\ off + FooterSize <= n
    /\ MemEq(buf, off, LD2420_END_COMMAND_PACKET)

\* __validate_packet__(buffer, buffer_size, intra_frame_data_size)
validate_packet(buf, n, buffer_size, intra_frame_data_size) ==
    IF buffer_size # ExpectedBufferSize(intra_frame_data_size)
    THEN LD2420_STATUS_ERROR_INVALID_BUFFER_SIZE
    ELSE IF ~MemEq(buf, 0, LD2420_BEG_COMMAND_PACKET)
    THEN LD2420_STATUS_ERROR_INVALID_HEADER
    ELSE IF ~FooterAt(buf, n, HeaderSize + 2 + intra_frame_data_size)
    THEN LD2420_STATUS_ERROR_INVALID_FOOTER
    ELSE LD2420_STATUS_OK

\* Mutants of FrameTooShort: the check dropped; the TX minimum of 2 used
FrameTooShort_none(frame_size) == FALSE
FrameTooShort_tx(frame_size) == frame_size < 2

\* if (*out_frame_size < 4)
FrameTooShort(frame_size) == frame_size < 4

\* Mutant of ld2420_parse_rx_buffer: the command echo and the status are
\* extracted before the length field is checked against 4
ld2420_parse_rx_buffer_early(buf, n, buffer_size, outs) ==
    LET gfs == get_frame_size(buf)
        o1  == [outs EXCEPT !.out_frame_size = gfs.out_intra_frame_data_size]
        vp  == validate_packet(buf, n, buffer_size, o1.out_frame_size)
        o2  == [o1 EXCEPT !.out_cmd_echo = buf[PACKET_CMD_ECHO_OFFSET + 1],
                          !.out_status = buf[PACKET_STATUS_OFFSET + 1]]
    IN  IF gfs.ret # LD2420_STATUS_OK THEN [ret |-> gfs.ret, outs |-> o1]
        ELSE IF vp # LD2420_STATUS_OK THEN [ret |-> vp, outs |-> o1]
        ELSE IF FrameTooShort(o2.out_frame_size)
        THEN [ret |-> LD2420_STATUS_ERROR_INVALID_FRAME_SIZE, outs |-> o2]
        ELSE [ret |-> LD2420_STATUS_OK, outs |-> o2]

\* ld2420_parse_rx_buffer on a non-NULL buffer holding n bytes, with non-NULL
\* outputs whose previous contents are `outs`.  buffer_size is the uint8_t
\* argument.  Returns the status and the outputs as they are on return.
ld2420_parse_rx_buffer(buf, n, buffer_size, outs) ==
    LET gfs == get_frame_size(buf)
        o1  == [outs EXCEPT !.out_frame_size = gfs.out_intra_frame_data_size]
        vp  == validate_packet(buf, n, buffer_size, o1.out_frame_size)
    IN  IF gfs.ret # LD2420_STATUS_OK THEN [ret |-> gfs.ret, outs |-> o1]
        ELSE IF vp # LD2420_STATUS_OK THEN [ret |-> vp, outs |-> o1]
        ELSE IF FrameTooShort(o1.out_frame_size)
        THEN [ret |-> LD2420_STATUS_ERROR_INVALID_FRAME_SIZE, outs |-> o1]
        ELSE [ret |-> LD2420_STATUS_OK,
              outs |-> [o1 EXCEPT
                  \* *(uint8_t *)(buf + offset): the low byte only
                  !.out_cmd_echo = buf[PACKET_CMD_ECHO_OFFSET + 1],
                  !.out_status = buf[PACKET_STATUS_OFFSET + 1]]]

\* ld2420_parse_rx_buffer as built with LD2420_PLATFORM_BE defined.  The
\* length field and the command echo go through read_le16; out_status is
\* (uint8_t)(in_raw_rx_buffer + PACKET_STATUS_OFFSET), the pointer itself
\* converted, so it takes the low byte of the address.  addr is the address
\* of the buffer modulo 256.
ld2420_parse_rx_buffer_be(buf, n, buffer_size, outs, addr) ==
    LET gfs == get_frame_size(buf)
        o1  == [outs EXCEPT !.out_frame_size = gfs.out_intra_frame_data_size]
        vp  == validate_packet(buf, n, buffer_size, o1.out_frame_size)
    IN  IF gfs.ret # LD2420_STATUS_OK THEN [ret |-> gfs.ret, outs |-> o1]
        ELSE IF vp # LD2420_STATUS_OK THEN [ret |-> vp, outs |-> o1]
        ELSE IF FrameTooShort(o1.out_frame_size)
        THEN [ret |-> LD2420_STATUS_ERROR_INVALID_FRAME_SIZE, outs |-> o1]
        ELSE [ret |-> LD2420_STATUS_OK,
              outs |-> [o1 EXCEPT
                  !.out_cmd_echo = U8(ReadU16(buf, PACKET_CMD_ECHO_OFFSET)),
                  !.out_status = U8(addr + PACKET_STATUS_OFFSET)]]

\* a | b on unsigned integers
RECURSIVE BitOr(_, _)
BitOr(a, b) ==
    IF a = 0 THEN b
    ELSE IF b = 0 THEN a
    ELSE (IF a % 2 = 1 \/ b % 2 = 1 THEN 1 ELSE 0)
            + 2 * BitOr(a \div 2, b \div 2)

\* The status ld2420_parse_rx_buffer returns before it reads anything when
\* a pointer argument is NULL: for a NULL buffer the bitwise OR of three
\* enumerators, for a NULL output pointer INVALID_ARGUMENTS.  The caller's
\* outputs are not written.
ld2420_parse_rx_buffer_null(bufNull, outNull) ==
    IF bufNull
    THEN BitOr(BitOr(LD2420_STATUS_ERROR_INVALID_BUFFER,
                     LD2420_STATUS_ERROR_INVALID_ARGUMENTS),
               LD2420_STATUS_ERROR_INVALID_BUFFER_SIZE)
    ELSE LD2420_STATUS_ERROR_INVALID_ARGUMENTS

(***************************************************************************)
(* Streaming assembler, ld2420_stream.c                                    *)
(*                                                                         *)
(* A context is the record [buffer, index, expected_total_size, synced]    *)
(* of ld2420_stream_t.                                                     *)
(***************************************************************************)
\* sizeof(s->buffer)
BufferSize == LD2420_MAX_RX_PACKET_SIZE

\* Mutant of ld2420_stream_init: returns without resetting anything
ld2420_stream_init_noop(s) == s

\* ld2420_stream_init: the buffer contents are left as they are
ld2420_stream_init(s) ==
    [s EXCEPT !.index = 0, !.expected_total_size = 0, !.synced = FALSE]

\* The backward scan of resync_to_next_header: the offsets i, from
\* index - header_size down to 0, at which the header is found
HeaderOffsets(s) ==
    {i \in 0..(s.index - HeaderSize) :
        MemEq(s.buffer, i, LD2420_BEG_COMMAND_PACKET)}

\* Mutant of LastHeaderOffset: the scan runs forward and stops at the lowest
\* offset
LastHeaderOffset_first(s) ==
    CHOOSE i \in HeaderOffsets(s) : \A j \in HeaderOffsets(s) : i <= j

\* The offset the backward scan stops at (the highest one)
LastHeaderOffset(s) ==
    CHOOSE i \in HeaderOffsets(s) : \A j \in HeaderOffsets(s) : j <= i

\* keep = (index < header_size - 1) ? index : (header_size - 1)
KeepCount(s) ==
    IF s.index < HeaderSize - 1 THEN s.index ELSE HeaderSize - 1

\* resync_to_next_header: [found, s]
resync_to_next_header(s) ==
    IF HeaderOffsets(s) # {}
    THEN LET i == LastHeaderOffset(s)
             remaining == s.index - i
         IN  [found |-> TRUE,
              s |-> [buffer |-> MemMoveFront(s.buffer, i, remaining),
                     index |-> remaining,
                     synced |-> TRUE,
                     expected_total_size |-> 0]]
    ELSE LET keep == KeepCount(s)
         IN  [found |-> FALSE,
              s |-> [buffer |-> IF keep > 0 /\ keep < s.index
                                THEN MemMoveFront(s.buffer, s.index - keep, keep)
                                ELSE s.buffer,
                     index |-> keep,
                     synced |-> FALSE,
                     expected_total_size |-> 0]]

\* if (!resync_to_next_header(s)) { s->index = 0; s->synced = false; }
ResyncOrDiscard(s) ==
    LET r == resync_to_next_header(s)
    IN  IF r.found THEN r.s
        ELSE [r.s EXCEPT !.index = 0, !.synced = FALSE]

\* if (!s || !on_frame)
ArgsMissing(sNull, cbNull) == sNull \/ cbNull

\* Mutant of EmptyFeed: only a NULL data pointer counts as an empty feed
EmptyFeed_nullonly(dataNull, len) == dataNull

\* if (!data || len == 0)
EmptyFeed(dataNull, len) == dataNull \/ len = 0

\* Mutant of NotSingleByte: a longer chunk is accepted and its first byte fed
NotSingleByte_never(len) == FALSE

\* if (len != 1)
NotSingleByte(len) == len # 1

\* if (s->index >= sizeof(s->buffer))
AtCapacity(s) == s.index >= BufferSize

\* s->buffer[s->index++] = byte, for index < sizeof(buffer)
AppendByte(s, byte) ==
    [s EXCEPT !.buffer[s.index + 1] = byte, !.index = s.index + 1]

\* Mutant of ScanForHeader: without a match the oldest byte is not dropped
ScanForHeader_grow(s) ==
    IF s.index >= HeaderSize
            /\ MemEq(s.buffer, s.index - HeaderSize, LD2420_BEG_COMMAND_PACKET)
    THEN [buffer |-> MemMoveFront(s.buffer, s.index - HeaderSize, HeaderSize),
          index |-> HeaderSize,
          synced |-> TRUE,
          expected_total_size |-> 0]
    ELSE s

\* Mutant of ScanForHeader: the cursor is decremented without the memmove
ScanForHeader_nomove(s) ==
    IF s.index >= HeaderSize
    THEN IF MemEq(s.buffer, s.index - HeaderSize, LD2420_BEG_COMMAND_PACKET)
         THEN [buffer |-> MemMoveFront(s.buffer, s.index - HeaderSize, HeaderSize),
               index |-> HeaderSize,
               synced |-> TRUE,
               expected_total_size |-> 0]
         ELSE [s EXCEPT !.index = s.index - 1]
    ELSE s

\* The not-synced branch: after the append, look for the header in the last
\* four bytes; align it to the front, or drop the oldest byte
ScanForHeader(s) ==
    IF s.index >= HeaderSize
    THEN IF MemEq(s.buffer, s.index - HeaderSize, LD2420_BEG_COMMAND_PACKET)
         THEN [buffer |-> MemMoveFront(s.buffer, s.index - HeaderSize, HeaderSize),
               index |-> HeaderSize,
               synced |-> TRUE,
               expected_total_size |-> 0]
         ELSE [s EXCEPT !.buffer = MemMoveFront(s.buffer, 1, s.index - 1),
                        !.index = s.index - 1]
    ELSE s

\* if (expected_total_size == 0 && index >= sizeof(header) + 2)
LengthKnown(s) ==
    s.expected_total_size = 0 /\ s.index >= HeaderSize + 2

\* Mutant of TotalSize: the footer is left out of the total
TotalSize_nofooter(s) ==
    HeaderSize + 2 + ReadU16(s.buffer, HeaderSize)

\* uint32_t total = header + 2 + frame_len + footer
TotalSize(s) ==
    HeaderSize + 2 + ReadU16(s.buffer, HeaderSize) + FooterSize

\* Mutant of TotalTooLarge: a total equal to the buffer size is refused
TotalTooLarge_strict(total) ==
    total >= BufferSize \/ total >= LD2420_MAX_RX_PACKET_SIZE

\* if (total > sizeof(s->buffer) || total > LD2420_MAX_RX_PACKET_SIZE)
TotalTooLarge(total) ==
    total > BufferSize \/ total > LD2420_MAX_RX_PACKET_SIZE

\* if (expected_total_size > 0 && index == expected_total_size)
FrameComplete(s) ==
    s.expected_total_size > 0 /\ s.index = s.expected_total_size

\* Mutant of FooterValid: the footer is left to the one-shot parser
FooterValid_any(s) == TRUE

\* memcmp(&buffer[footer_offset], LD2420_END_COMMAND_PACKET, 4) == 0
FooterValid(s) ==
    MemEq(s.buffer, s.expected_total_size - FooterSize, LD2420_END_COMMAND_PACKET)

\* The arguments on_frame is called with
SinkCall(s, outs) ==
    [frame |-> SubSeq(s.buffer, 1, s.expected_total_size),
     frame_size_bytes |-> s.expected_total_size,
     cmd_echo |-> outs.out_cmd_echo,
     status |-> outs.out_status,
     index |-> s.index]

\* uint16_t out_frame_size = 0, out_cmd_echo = 0, out_status = 0;
ZeroOuts == [out_frame_size |-> 0, out_cmd_echo |-> 0, out_status |-> 0]

\* Mutant of ResetForNextFrame: only the cursor is reset
ResetForNextFrame_partial(s) == [s EXCEPT !.index = 0]

\* Reset for next frame
ResetForNextFrame(s) ==
    [s EXCEPT !.index = 0, !.expected_total_size = 0, !.synced = FALSE]

\* Mutant of AfterCallback: a sink that returned false stops the reset
AfterCallback_stop(s, sink_ret) ==
    IF sink_ret THEN ResetForNextFrame(s) ELSE s

\* Mutant of AfterCallback: no reset follows the callback
AfterCallback_none(s, sink_ret) == s

\* on_frame(...); is an expression statement: the bool the sink returned
\* (sink_ret) is discarded and the reset follows
AfterCallback(s, sink_ret) == ResetForNextFrame(s)

\* Mutant of ParseAccepted: the sink is invoked whatever the parser returned
ParseAccepted_always(parse_status) == TRUE

\* if (parse_status == LD2420_STATUS_OK)
ParseAccepted(parse_status) == parse_status = LD2420_STATUS_OK

\* Mutant of ReturnedStatus: an emission is reported with a status of its own
ReturnedStatus_flagged(parse_status) ==
    IF parse_status = LD2420_STATUS_OK THEN LD2420_STATUS_ERROR_UNKNOWN
    ELSE LD2420_STATUS_ERROR_INVALID_PACKET

\* return parse_status: the parser's OK, or INVALID_PACKET set in the else
ReturnedStatus(parse_status) ==
    IF ParseAccepted(parse_status) THEN parse_status
    ELSE LD2420_STATUS_ERROR_INVALID_PACKET

\* The complete-frame block: footer check, one-shot parse, callback, reset.
\* sink_ret is what on_frame returns if it is called.
EmitOrReject(s, sink_ret) ==
    IF ~FooterValid(s)
    THEN [s |-> ResyncOrDiscard(s),
          ret |-> LD2420_STATUS_ERROR_INVALID_FOOTER, sink |-> <<>>]
    ELSE LET p == ld2420_parse_rx_buffer(s.buffer, BufferSize,
                                         U8(s.expected_total_size), ZeroOuts)
         IN  [s |-> IF ParseAccepted(p.ret) THEN AfterCallback(s, sink_ret)
                    ELSE ResetForNextFrame(s),
              ret |-> ReturnedStatus(p.ret),
              sink |-> IF ParseAccepted(p.ret)
                       THEN <<SinkCall(s, p.outs)>> ELSE <<>>]

\* The synced part of feed, after the append
Accumulate(s, sink_ret) ==
    IF LengthKnown(s) /\ TotalTooLarge(TotalSize(s))
    THEN [s |-> ResyncOrDiscard(s),
          ret |-> LD2420_STATUS_ERROR_BUFFER_TOO_SMALL, sink |-> <<>>]
    ELSE LET s1 == IF LengthKnown(s)
                   THEN [s EXCEPT !.expected_total_size = U16(TotalSize(s))]
                   ELSE s
         IN  IF FrameComplete(s1) THEN EmitOrReject(s1, sink_ret)
             ELSE [s |-> s1, ret |-> LD2420_STATUS_OK, sink |-> <<>>]

\* Mutant of AfterAppend: a header in the last four bytes restarts the
\* frame in the synced state as well
AfterAppend_rescan(s, byte, sink_ret) ==
    LET s1 == AppendByte(s, byte)
    IN  IF ~s1.synced
            \/ (s1.index >= HeaderSize
                /\ MemEq(s1.buffer, s1.index - HeaderSize,
                         LD2420_BEG_COMMAND_PACKET))
        THEN [s |-> ScanForHeader(s1), ret |-> LD2420_STATUS_OK, sink |-> <<>>]
        ELSE Accumulate(s1, sink_ret)

\* feed from the append on, for a context with room for the byte
AfterAppend(s, byte, sink_ret) ==
    LET s1 == AppendByte(s, byte)
    IN  IF ~s1.synced
        THEN [s |-> ScanForHeader(s1), ret |-> LD2420_STATUS_OK, sink |-> <<>>]
        ELSE Accumulate(s1, sink_ret)

\* The store s->buffer[s->index++] = byte with index >= sizeof(buffer) lands
\* outside the array (undefined behaviour).  In ld2420_stream_t the member
\* that follows buffer[154] is index: the store either is overwritten by the
\* increment (index + 1) or overwrites the low byte of the incremented value.
OutOfBoundsIndex(s, byte) ==
    {s.index + 1, ((s.index + 1) \div 256) * 256 + byte}

\* ld2420_stream_feed(s, data, len, on_frame).  sNull, dataNull, cbNull tell
\* which pointers are NULL; data is the byte data[0] read when len = 1;
\* sink_ret is the bool on_frame returns when it is called.
\* The result is the set of outcomes [s, ret, sink, oob]: the context on
\* return, the returned status, the sink invocations made, and whether the
\* call stored outside the buffer (ret is then not defined).
ld2420_stream_feed(s, sNull, dataNull, data, len, cbNull, sink_ret) ==
    IF ArgsMissing(sNull, cbNull)
    THEN {[s |-> s, ret |-> LD2420_STATUS_ERROR_INVALID_ARGUMENTS,
           sink |-> <<>>, oob |-> FALSE]}
    ELSE IF EmptyFeed(dataNull, len)
    THEN {[s |-> s, ret |-> LD2420_STATUS_OK, sink |-> <<>>, oob |-> FALSE]}
    ELSE IF NotSingleByte(len)
    THEN {[s |-> s, ret |-> LD2420_STATUS_ERROR_INVALID_ARGUMENTS,
           sink |-> <<>>, oob |-> FALSE]}
    ELSE IF AtCapacity(s) /\ ~resync_to_next_header(s).found
    THEN {[s |-> [resync_to_next_header(s).s EXCEPT
                      !.index = 0, !.synced = FALSE, !.expected_total_size = 0],
           ret |-> LD2420_STATUS_ERROR_BUFFER_TOO_SMALL,
           sink |-> <<>>, oob |-> FALSE]}
    ELSE LET s1 == IF AtCapacity(s) THEN resync_to_next_header(s).s ELSE s
         IN  IF AtCapacity(s1)
             THEN {[s |-> [s1 EXCEPT !.index = v], ret |-> LD2420_STATUS_OK,
                    sink |-> <<>>, oob |-> TRUE] : v \in OutOfBoundsIndex(s1, data)}
             ELSE {LET r == AfterAppend(s1, data, sink_ret)
                   IN  [s |-> r.s, ret |-> r.ret, sink |-> r.sink, oob |-> FALSE]}

(***************************************************************************)
(* Byte streams fed to the assembler                                       *)
(***************************************************************************)
\* Bounds of the input generator
MaxNoiseLen == 3
MaxPayload == 1
MaxFill == 142
MaxCalls == 4

\* header, 16-bit little-endian length field, inner region, footer
MkFrame(len_field, inner, footer) ==
    LD2420_BEG_COMMAND_PACKET \o <<len_field % 256, len_field \div 256>>
        \o inner \o footer

\* n payload bytes holding no header or footer byte
Payload(n) == [i \in 1..n |-> 16 + i]
Zeros(n) == [i \in 1..n |-> 0]

\* A well-formed response: command echo, status, n payload bytes
Response(cs, n) ==
    MkFrame(4 + n, cs \o Payload(n), LD2420_END_COMMAND_PACKET)

\* The frame of test__streaming_parser_handles_chunking
DocFrame ==
    MkFrame(8, <<255, 1, 0, 0, 2, 0, 32, 0>>, LD2420_END_COMMAND_PACKET)
MinFrame == Response(<<8, 0, 1, 0>>, 0)
MaxFrame ==
    Response(<<0, 0, 0, 0>>,
             LD2420_MAX_RX_PACKET_SIZE - LD2420_MIN_RX_PACKET_SIZE)
\* One byte over the maximum: 155 bytes, length field 145
OverFrame ==
    Response(<<0, 0, 0, 0>>,
             LD2420_MAX_RX_PACKET_SIZE - LD2420_MIN_RX_PACKET_SIZE + 1)
\* Frames whose inner region holds the header or the footer marker
HeaderInside ==
    MkFrame(8, <<7, 0, 0, 0>> \o LD2420_BEG_COMMAND_PACKET,
            LD2420_END_COMMAND_PACKET)
FooterInside ==
    MkFrame(8, <<7, 0, 0, 0>> \o LD2420_END_COMMAND_PACKET,
            LD2420_END_COMMAND_PACKET)

\* Valid frames with the inner region of the documented frame's size that
\* hold the header or the footer marker at each offset of the inner region
InnerWithMarker(n, marker, k) ==
    [i \in 1..n |-> IF i > k /\ i <= k + Len(marker) THEN marker[i - k]
                    ELSE 16 + i]
InnerMarkerFrames ==
    {MkFrame(8, InnerWithMarker(8, m, k), LD2420_END_COMMAND_PACKET) :
        m \in {LD2420_BEG_COMMAND_PACKET, LD2420_END_COMMAND_PACKET},
        k \in 0..(8 - HeaderSize)}

CmdStatus == {<<8, 0, 1, 0>>, <<255, 1, 0, 1>>}

ValidFrames ==
    {DocFrame, MaxFrame, HeaderInside, FooterInside}
        \cup {Response(cs, n) : cs \in CmdStatus, n \in 0..MaxPayload}

\* Well-delimited frames whose length field is below 4 (the TX frame
\* FD FC FB FA 02 00 00 00 04 03 02 01 is the one with length 2)
ShortFrame(l) == MkFrame(l, Zeros(l), LD2420_END_COMMAND_PACKET)
ShortFrames == {ShortFrame(l) : l \in 0..3}

ContainsHeader(bytes) ==
    \E i \in 0..(Len(bytes) - HeaderSize) :
        MemEq(bytes, i, LD2420_BEG_COMMAND_PACKET)

NoiseBytes == {170, 253, 252, 251, 250}
NoiseSeqs ==
    {n \in UNION {[1..k -> NoiseBytes] : k \in 1..MaxNoiseLen} :
        ~ContainsHeader(n)}

\* Corrupted variants of a frame
LengthOf(f) == ReadU16(f, HeaderSize)
Truncated(f) == {SubSeq(f, 1, k) : k \in 1..(Len(f) - 1)}
WrongFooter(f) ==
    {[f EXCEPT ![Len(f) - FooterSize + k] = 0] : k \in 1..FooterSize}
WrongLengths(f) ==
    {0, LengthOf(f) - 1, LengthOf(f) + 1, LengthOf(f) + 4,
     LD2420_MAX_RX_PACKET_SIZE, 2 * LD2420_MAX_RX_PACKET_SIZE}
WrongLength(f) ==
    {[f EXCEPT ![HeaderSize + 1] = l % 256, ![HeaderSize + 2] = l \div 256] :
        l \in WrongLengths(f)}

CorruptBase == {DocFrame, MinFrame}
SecondFrames == {DocFrame, Response(<<255, 1, 0, 1>>, 0), MaxFrame}

Scenario(kind, pre, post) == [kind |-> kind, pre |-> pre, post |-> post]

\* Valid frames sent back to back, and the bytes of the first n of them
FrameTrain ==
    <<MinFrame, HeaderInside, Response(<<255, 1, 0, 1>>, 0), DocFrame>>
RECURSIVE Flatten(_, _)
Flatten(fs, n) == IF n = 0 THEN <<>> ELSE Flatten(fs, n - 1) \o fs[n]

Scenarios ==
    {Scenario("plain", <<>>, f) : f \in ValidFrames}
    \cup {Scenario("noise", n, f) : n \in NoiseSeqs, f \in {DocFrame, MinFrame}}
    \cup {Scenario("noise", <<170, 187>>, f) : f \in {DocFrame}}
    \cup {Scenario("short", n, f) : n \in {<<>>, <<170, 187>>}, f \in ShortFrames}
    \cup {Scenario("truncated", c, f) :
            c \in UNION {Truncated(b) : b \in CorruptBase}, f \in SecondFrames}
    \cup {Scenario("footer", c, f) :
            c \in UNION {WrongFooter(b) : b \in CorruptBase},
            f \in SecondFrames \cup {Zeros(MaxFill)}}
    \cup {Scenario("length", c, f) :
            c \in UNION {WrongLength(b) : b \in CorruptBase},
            f \in SecondFrames \cup {Zeros(MaxFill)}}
    \cup {Scenario("chunks", n, f) :
            n \in {<<>>, <<170, 187>>}, f \in {DocFrame, ShortFrame(2)}}
    \cup {Scenario("boundary", c, f) :
            c \in {ShortFrame(3), OverFrame}, f \in SecondFrames}
    \cup {Scenario("pair", f1, f2) :
            f1 \in {DocFrame, MinFrame}, f2 \in SecondFrames}
    \cup {Scenario("inner", <<>>, f) : f \in InnerMarkerFrames}
    \cup {Scenario("train", Flatten(FrameTrain, Len(FrameTrain) - 1),
                    FrameTrain[Len(FrameTrain)])}

\* Frames fed after a re-initialisation
ReinitFrames == {DocFrame, MinFrame}
ReinitAllowed(sc) ==
    \/ sc.kind \in {"footer", "length"} /\ sc.post = Zeros(MaxFill)
    \/ sc.kind = "truncated" /\ sc.post = DocFrame

(***************************************************************************)
(* Buffers handed to the one-shot parser                                   *)
(***************************************************************************)
\* Bounds of the parser's inputs: length fields up to 255 + MaxWrap + 10
\* beyond the uint8_t range, MaxSlack bytes of size mismatch
MaxWrap == 8
MaxSlack == 1

\* A frame of any length field: command echo 8, status 1, zero payload
BigFrame(l) ==
    MkFrame(l, <<8, 0, 1, 0>> \o Zeros(l - 4), LD2420_END_COMMAND_PACKET)

\* Frames whose total size 10 + l does not fit the uint8_t buffer_size
WrapLengths == {246 + k : k \in 0..(MaxWrap + 10)}
WrapFrames == {BigFrame(l) : l \in WrapLengths}

\* An 18-byte frame whose length field says 264, with zero bytes behind it
WrapStub ==
    [DocFrame EXCEPT ![HeaderSize + 1] = 8, ![HeaderSize + 2] = 1]
        \o Zeros(256)

WrongHeader(f) == {[f EXCEPT ![k] = 0] : k \in 1..HeaderSize}

RxFrames ==
    ValidFrames \cup ShortFrames \cup {OverFrame}
        \cup UNION {WrongFooter(b) \cup WrongLength(b) \cup WrongHeader(b) :
                        b \in CorruptBase}

\* Previous contents of the caller's three output variables
StaleOuts ==
    [out_frame_size |-> 43690, out_cmd_echo |-> 43690, out_status |-> 43690]

\* Low byte of the address the buffer is at
RxAddresses == {0, 248}

\* A call: the memory from the buffer pointer on, the buffer_size argument,
\* the outputs' previous contents, the buffer's address modulo 256
RxCall(mem, size, addr) ==
    [mem |-> mem, size |-> size, prev |-> StaleOuts, addr |-> addr]

RxCalls ==
    UNION {{RxCall(f \o Zeros(MaxSlack), n, a) :
                n \in (Len(f) - MaxSlack)..(Len(f) + MaxSlack),
                a \in RxAddresses} : f \in RxFrames}
    \cup {RxCall(f, U8(Len(f)), a) :
            f \in WrapFrames \cup {WrapStub}, a \in RxAddresses}

NoCall == RxCall(<<>>, 0, 0)
NotParsed == [build |-> "none", ret |-> LD2420_STATUS_OK, outs |-> ZeroOuts]

(***************************************************************************)
(* TX command packets: ld2420_create_tx_command_packet and                 *)
(* ld2420_serialize_command_packet, on a little-endian host                *)
(***************************************************************************)
LD2420_CMD_OPEN_CONFIG_MODE == 255
LD2420_CMD_CLOSE_CONFIG_MODE == 254
LD2420_CMD_READ_VERSION_NUMBER == 0
LD2420_CMD_REBOOT == 104
LD2420_CMD_READ_CONFIG == 8
LD2420_CMD_SET_CONFIG == 7

ld2420_command_t ==
    {LD2420_CMD_OPEN_CONFIG_MODE, LD2420_CMD_CLOSE_CONFIG_MODE,
     LD2420_CMD_READ_VERSION_NUMBER, LD2420_CMD_REBOOT,
     LD2420_CMD_READ_CONFIG, LD2420_CMD_SET_CONFIG}

\* Mutant of ObjectBytes16: the bytes of an unsigned short on a big-endian
\* host
ObjectBytes16_be(v) == <<v \div 256, v % 256>>

\* memcpy(dst, &v, sizeof(v)) of an unsigned short v: the two bytes of its
\* object representation on a little-endian host
ObjectBytes16(v) == <<v % 256, v \div 256>>

\* sizeof(packet->cmd), sizeof(packet->frame_size)
SizeofCmd == Len(ObjectBytes16(0))
SizeofFrameSize == Len(ObjectBytes16(0))

\* No packet: before the call, or the NULL the call returned
NoPacket(alloc) ==
    [alloc |-> alloc, HEADER |-> <<>>, frame_size |-> 0, cmd |-> 0,
     frame_data |-> <<>>, dataNull |-> TRUE, FOOTER |-> <<>>]

\* ld2420_create_tx_command_packet(cmd, frame_data, frame_size, status_ref).
\* dataNull: frame_data is NULL; status: what *status_ref held; ok1, ok2:
\* the two malloc calls succeed.  The result is the packet (alloc = "null"
\* for a NULL return) and what *status_ref holds afterwards.
ld2420_create_tx_command_packet(cmd, frame_data, dataNull, frame_size, status, ok1, ok2) ==
    LET copies == frame_size > 0 /\ ~dataNull
    IN  IF ~ok1 \/ (copies /\ ~ok2)
        THEN [packet |-> NoPacket("null"),
              status |-> "LD2420_ERROR_MEMORY_ALLOCATION_FAILED"]
        ELSE [packet |->
                [alloc |-> "ok",
                 HEADER |-> LD2420_BEG_COMMAND_PACKET,
                 \* unsigned short frame_size = sizeof(packet->cmd) + frame_size
                 frame_size |-> U16(SizeofCmd + frame_size),
                 cmd |-> U16(cmd),
                 frame_data |-> IF copies THEN SubSeq(frame_data, 1, frame_size)
                                ELSE <<>>,
                 dataNull |-> ~copies,
                 FOOTER |-> LD2420_END_COMMAND_PACKET],
              status |-> status]

\* No serialised buffer: before the call ("none"), a NULL return ("null"),
\* or a call that did not return ("ub")
NoWire(state) == [state |-> state, bytes |-> <<>>, out_size |-> 0]

\* ld2420_serialize_command_packet(packet, out_size, status_ref).
\* outSizeNull: out_size is NULL; ok: malloc succeeds; uninit: the value of
\* the bytes of the returned buffer the call did not set.
\* When packet->frame_size is below sizeof(packet->cmd), the size_t
\* additional_data_size wraps to a value near SIZE_MAX and packet_size wraps
\* back to 10 or 11: the copies write outside the buffer allocated, which is
\* undefined; the call then does not return (crash), or returns the buffer
\* with out_size 10 or 11.
ld2420_serialize_command_packet(packet, outSizeNull, status, ok, uninit, crash) ==
    IF packet.alloc # "ok" \/ outSizeNull
    THEN [wire |-> NoWire("null"), status |-> "LD2420_ERROR_INVALID_PACKET"]
    ELSE IF ~ok
    THEN [wire |-> NoWire("null"),
          status |-> "LD2420_ERROR_MEMORY_ALLOCATION_FAILED"]
    ELSE
        LET wraps == packet.frame_size < SizeofCmd
            \* the size_t value is this integer, plus SIZE_MAX + 1 when it
            \* is negative
            additional_data_size == packet.frame_size - SizeofCmd
            packet_size == HeaderSize + SizeofFrameSize + SizeofCmd
                                + additional_data_size + FooterSize
            fields ==
                packet.HEADER
                    \o ObjectBytes16(packet.frame_size)
                    \o ObjectBytes16(packet.cmd)
            written ==
                fields
                    \o (IF additional_data_size > 0 /\ ~packet.dataNull
                        THEN SubSeq(packet.frame_data, 1, additional_data_size)
                        ELSE <<>>)
                    \o packet.FOOTER
        IN  IF wraps /\ crash
            THEN [wire |-> NoWire("ub"), status |-> status]
            ELSE IF wraps
            THEN [wire |->
                    [state |-> "ok",
                     bytes |-> fields
                        \o [k \in 1..(packet_size - Len(fields)) |-> uninit],
                     out_size |-> packet_size],
                  status |-> status]
            ELSE [wire |->
                    [state |-> "ok",
                     bytes |-> written
                        \o [k \in 1..(packet_size - Len(written)) |-> uninit],
                     out_size |-> packet_size],
                  status |-> status]

\* Bound of the additional frame data a caller passes
MaxData == 2

\* Values of data bytes and of the bytes of uninitialised memory
TxBytes == {0, 4, 253}

\* Command ids passed: the enumerators, and one with a non-zero high byte
TxCommands == ld2420_command_t \cup {LD2420_CMD_SET_CONFIG + 256}

\* A call of ld2420_create_tx_command_packet not yet made
TxCall(cmd, data, dataNull, n) ==
    [cmd |-> cmd, frame_data |-> data, dataNull |-> dataNull,
     frame_size |-> n, packet |-> NoPacket("none"), status |-> "LD2420_OK"]

\* Data of 0..MaxData bytes; a NULL data pointer with size 0 or 1; data of
\* 65534 and 65535 bytes, for which 2 + frame_size does not fit an unsigned
\* short
TxCalls ==
    {TxCall(c, d, FALSE, Len(d)) :
        c \in TxCommands,
        d \in UNION {[1..n -> TxBytes] : n \in 0..MaxData}}
    \cup {TxCall(c, <<>>, TRUE, n) : c \in TxCommands, n \in 0..1}
    \cup {TxCall(LD2420_CMD_SET_CONFIG, Zeros(n), FALSE, n) :
            n \in {65534, 65535}}

NoTx == TxCall(LD2420_CMD_READ_VERSION_NUMBER, <<>>, TRUE, 0)

(***************************************************************************)
(* A feed call followed through the loop of resync_to_next_header          *)
(***************************************************************************)
\* (int16_t)x
Int16(x) ==
    LET m == x % 65536 IN IF m >= 32768 THEN m - 65536 ELSE m

\* Whether a feed call of one byte calls resync_to_next_header (at a full
\* buffer, at a length too large, or at a footer mismatch), and the context
\* it calls it on
ResyncCall(s, byte) ==
    IF AtCapacity(s) THEN [called |-> TRUE, s |-> s]
    ELSE
        LET s1 == AppendByte(s, byte)
            s2 == IF LengthKnown(s1)
                  THEN [s1 EXCEPT !.expected_total_size = U16(TotalSize(s1))]
                  ELSE s1
        IN  IF ~s1.synced THEN [called |-> FALSE, s |-> s1]
            ELSE IF LengthKnown(s1) /\ TotalTooLarge(TotalSize(s1))
            THEN [called |-> TRUE, s |-> s1]
            ELSE [called |-> FALSE \/ (FrameComplete(s2) /\ ~FooterValid(s2)),
                  s |-> s2]

\* int16_t i = (int16_t)(s->index - header_size)
ScanFirst(s) == Int16(s.index - HeaderSize)

\* Mutant of ScanAdvance: the loop variable is not decremented
ScanAdvance_stay(i) == i

\* --i
ScanAdvance(i) == i - 1

\* No call in progress
NoScan ==
    [pc |-> "idle", i |-> 0, found |-> FALSE,
     target |-> [buffer |-> <<>>, index |-> 0, expected_total_size |-> 0,
                 synced |-> FALSE]]

(***************************************************************************)
(* The Pico platform layer: RX ring buffer, interrupt handler and frame    *)
(* assembler of ld2420_pico.c                                              *)
(***************************************************************************)
LD2420_UART_RINGBUF_SIZE == 512
LD2420_MAX_FRAME_SIZE == 256
LD2420_SOF == 244
LD2420_FRAME_STATE_AWAITING_SOF == 0
LD2420_FRAME_STATE_ACCUMULATING == 1

\* (i + 1) % LD2420_UART_RINGBUF_SIZE
RingNext(i) == (i + 1) % LD2420_UART_RINGBUF_SIZE

\* Mutant of RingFull: the handler does not test for a full ring
RingFull_never(rb) == FALSE

\* n == rb->tail, for n = (h + 1) % LD2420_UART_RINGBUF_SIZE
RingFull(rb) == RingNext(rb.head) = rb.tail

\* One iteration of the handler's loop for the received byte c: the byte is
\* stored at head and head published, or the byte is dropped and counted.
\* buf is a sequence: slot i of the C array is buf[i + 1]
uart_rx_irq_byte(rb, c) ==
    IF ~RingFull(rb)
    THEN [rb EXCEPT !.buf[rb.head + 1] = c, !.head = RingNext(rb.head)]
    ELSE [rb EXCEPT !.overflow = U16(rb.overflow + 1)]

\* Mutant of TailSlot: the consumer reads the slot after tail
TailSlot_next(rb) == RingNext(rb.tail)

\* the slot of byte = rb->buf[rb->tail]
TailSlot(rb) == rb.tail

\* len, state and expected_len as __init_uart_rx_buffer__ and the resets in
\* __assemble_and_deliver_frames set them
AssemblerReset(fa) ==
    [fa EXCEPT !.len = 0, !.state = LD2420_FRAME_STATE_AWAITING_SOF,
               !.expected_len = 0]

\* Mutant of ExpectedLen: the length byte is not counted
ExpectedLen_short(byte) == byte + 1

\* fa->expected_len = byte + 2
ExpectedLen(byte) == byte + 2

\* fa->len < LD2420_MAX_FRAME_SIZE
AssemblerRoom(fa) == fa.len < LD2420_MAX_FRAME_SIZE

\* The body of the loop of __assemble_and_deliver_frames after the byte has
\* been taken from the ring: the assembler afterwards, and the buffers
\* passed to the callback (none or one). buf is a sequence: buf[k] of the C
\* array is buf[k + 1]
AssembleByte(fa, byte, registered) ==
    IF fa.state = LD2420_FRAME_STATE_AWAITING_SOF
    THEN [fa |-> IF byte = LD2420_SOF
                 THEN [fa EXCEPT !.buf[1] = byte, !.len = 1,
                           !.state = LD2420_FRAME_STATE_ACCUMULATING,
                           !.expected_len = 0]
                 ELSE fa,
          cb |-> <<>>]
    ELSE IF AssemblerRoom(fa)
    THEN LET f1 == [fa EXCEPT !.buf[fa.len + 1] = byte,
                              !.len = U16(fa.len + 1)]
             f2 == IF f1.len = 2
                   THEN [f1 EXCEPT !.expected_len = ExpectedLen(byte)]
                   ELSE f1
         IN  IF f2.len >= 2 /\ f2.len = f2.expected_len
             THEN [fa |-> AssemblerReset(f2),
                   cb |-> IF registered
                          THEN <<[buf |-> f2.buf, len |-> f2.len]>>
                          ELSE <<>>]
             ELSE [fa |-> f2, cb |-> <<>>]
    ELSE [fa |-> AssemblerReset(fa), cb |-> <<>>]

\* rx_callbacks[] after ld2420_pico_init for uart0 alone: a callback for
\* index 0, NULL for index 1
rx_callbacks == [i \in 0..1 |-> i = 0]

\* The checks of ld2420_pico_process before it drains the ring
ProcessRejects(uart_index) ==
    uart_index > 1 \/ ~rx_callbacks[uart_index]

\* An empty ring at position t with an idle assembler, nothing on the line
PicoAt(t) ==
    [rb |-> [buf |-> [i \in 1..LD2420_UART_RINGBUF_SIZE |-> 0], head |-> t,
             tail |-> t, overflow |-> 0],
     fa |-> [buf |-> [i \in 1..LD2420_MAX_FRAME_SIZE |-> 0], len |-> 0,
             state |-> LD2420_FRAME_STATE_AWAITING_SOF, expected_len |-> 0],
     pc |-> "idle", byte |-> 0, frame_count |-> 0, uart_index |-> 0,
     result |-> 0, ncb |-> 0,
     last |-> [buf |-> [i \in 1..LD2420_MAX_FRAME_SIZE |-> 0], len |-> 0],
     line |-> <<>>, stored |-> <<>>, got |-> <<>>, t0 |-> t, nproc |-> 0,
     preempted |-> FALSE]

\* The state ld2420_pico_init leaves
NoPico == PicoAt(0)

(***************************************************************************)
(* The example's ring buffer: ld2420_pico_bytes_available                  *)
(***************************************************************************)
LD2420_PICO_RX_BUFFER_SIZE == 256

\* The handler of the example for one received byte: write_idx advances
\* unless the next position is read_idx
ExampleIrqByte(rb) ==
    LET next_write_idx == (rb.write_idx + 1) % LD2420_PICO_RX_BUFFER_SIZE
    IN  IF next_write_idx # rb.read_idx
        THEN [rb EXCEPT !.write_idx = next_write_idx]
        ELSE rb

\* rb->read_idx = (rb->read_idx + 1) % LD2420_PICO_RX_BUFFER_SIZE, unless
\* the ring is empty
ExampleReadByte(rb) ==
    IF rb.read_idx = rb.write_idx THEN rb
    ELSE [rb EXCEPT
            !.read_idx = (rb.read_idx + 1) % LD2420_PICO_RX_BUFFER_SIZE]

\* The return expression of ld2420_pico_bytes_available for the branch the
\* comparison chose and the values the second reads deliver, as uint16_t
BytesAvailableValue(geq, write_idx, read_idx) ==
    IF geq THEN U16(write_idx - read_idx)
    ELSE U16(LD2420_PICO_RX_BUFFER_SIZE - read_idx + write_idx)

(***************************************************************************)
(* ld2420_pico_send_safe                                                   *)
(***************************************************************************)
\* uart_instance == NULL || buffer == NULL || buffer_size == 0
SendRejects(call) == call.uartNull \/ call.bufNull \/ call.size = 0

\* Mutant of MutexFree: mutex_enter_blocking does not wait
MutexFree_always(owner) == TRUE

\* mutex_enter_blocking returns once no one owns the mutex; owner is the
\* set of callers inside
MutexFree(owner) == owner = {}

\* No call made, the mutex as auto_init_mutex leaves it
NoSendCall == [uartNull |-> FALSE, bufNull |-> FALSE, size |-> 0]

NoSend ==
    [owner |-> {}, pc |-> <<"idle", "idle">>,
     call |-> <<NoSendCall, NoSendCall>>, sent |-> <<0, 0>>,
     done |-> <<0, 0>>, status |-> <<LD2420_STATUS_OK, LD2420_STATUS_OK>>,
     waited |-> <<FALSE, FALSE>>, out |-> <<>>]

\* The example's ring as ld2420_pico_init leaves it, no call made
NoExample ==
    [write_idx |-> 0, read_idx |-> 0, pc |-> "idle", geq |-> FALSE,
     entry |-> 0, atret |-> 0, result |-> 0, irqs |-> 0, reads |-> 0,
     unread |-> 0]

(***************************************************************************)
(* State                                                                   *)
(***************************************************************************)
VARIABLES
    rx,       \* the ld2420_parse_rx_buffer call a caller makes directly
    parsed,   \* its result: the build that ran ("le", "be") or the NULL
              \* argument given, the status, the outputs
    s,        \* the ld2420_stream_t context
    pending,  \* bytes the byte source has not fed yet
    scen,     \* the stream the byte source was given
    frames,   \* the sink invocations so far, in order
    ret,      \* status returned by the last ld2420_stream_feed call
    op,       \* the last call: "init", "feed", "empty", "badargs", "chunk"
    oob,      \* the last feed stored a byte outside buffer[]
    calls,    \* lengths of the feed calls made so far (chunked feeding)
    tx,       \* a ld2420_create_tx_command_packet call and its result
    wire,     \* the result of serialising the packet created
    scan,     \* the feed call in progress, followed through the loop of
              \* resync_to_next_header step by step
    pico,     \* the RX ring, the frame assembler and the ld2420_pico_process
              \* call in progress of ld2420_pico.c, with the bytes on the line
    exr,      \* the example's ring indexes and the
              \* ld2420_pico_bytes_available call in progress
    snd       \* the TX mutex, the ld2420_pico_send_safe calls in progress
              \* and the bytes written to the UART

\* The variables of the Pico platform layer
plat == <<pico, exr, snd>>

\* The variables of the harnesses that follow single calls step by step
aux == <<scan, plat>>

\* The platform layer not in use
PlatIdle ==
    /\ pico = NoPico
    /\ exr = NoExample
    /\ snd = NoSend

vars ==
    <<s, pending, scen, frames, ret, op, oob, calls, rx, parsed, tx, wire, aux>>

Init ==
    /\ s = ld2420_stream_init(
             [buffer |-> Zeros(BufferSize), index |-> 0,
              expected_total_size |-> 0, synced |-> FALSE])
    /\ scen \in Scenarios
    /\ pending = scen.pre \o scen.post
    /\ frames = <<>>
    /\ ret = LD2420_STATUS_OK
    /\ op = "init"
    /\ oob = FALSE
    /\ calls = <<>>
    /\ rx = NoCall
    /\ parsed = NotParsed
    /\ tx = NoTx
    /\ wire = NoWire("none")
    /\ scan = NoScan
    /\ PlatIdle

Drop(seq, n) == SubSeq(seq, n + 1, Len(seq))

\* The byte source feeds its next byte: ld2420_stream_feed(&s, &b, 1, cb)
FeedByte ==
    /\ ~oob
    /\ scen.kind # "chunks"
    /\ pending # <<>>
    /\ \E sink_ret \in BOOLEAN :
        \E r \in ld2420_stream_feed(s, FALSE, FALSE, Head(pending), 1, FALSE,
                                    sink_ret) :
            /\ s' = r.s
            /\ ret' = r.ret
            /\ frames' = frames \o r.sink
            /\ oob' = r.oob
    /\ pending' = Tail(pending)
    /\ op' = "feed"
    /\ UNCHANGED <<scen, calls, rx, parsed, tx, wire, aux>>

\* The byte source hands over its next n bytes in one call:
\* ld2420_stream_feed(&s, data, n, cb)
FeedChunk ==
    /\ ~oob
    /\ scen.kind = "chunks"
    /\ Len(calls) < MaxCalls
    /\ \E n \in 1..Len(pending) :
        /\ \E sink_ret \in BOOLEAN :
           \E r \in ld2420_stream_feed(s, FALSE, FALSE, Head(pending), n, FALSE,
                                       sink_ret) :
            /\ s' = r.s
            /\ ret' = r.ret
            /\ frames' = frames \o r.sink
            /\ oob' = r.oob
        /\ pending' = Drop(pending, n)
        /\ calls' = Append(calls, n)
        /\ op' = IF n = 1 THEN "feed" ELSE "chunk"
    /\ UNCHANGED <<scen, rx, parsed, tx, wire, aux>>

\* ld2420_stream_feed(&s, data, 0, cb) with data NULL or not
FeedEmpty ==
    /\ ~oob
    /\ \E dataNull \in BOOLEAN :
        \E r \in ld2420_stream_feed(s, FALSE, dataNull, 0, 0, FALSE, TRUE) :
            /\ s' = r.s
            /\ ret' = r.ret
            /\ frames' = frames \o r.sink
            /\ oob' = r.oob
    /\ op' = "empty"
    /\ UNCHANGED <<pending, scen, calls, rx, parsed, tx, wire, aux>>

\* Calls with a NULL context, a NULL callback or a len other than 0 and 1:
\* <<s is NULL, data is NULL, on_frame is NULL, len>>
InvalidCalls ==
    {<<TRUE, FALSE, FALSE, 1>>, <<FALSE, FALSE, TRUE, 1>>,
     <<TRUE, TRUE, TRUE, 0>>, <<FALSE, FALSE, FALSE, 2>>,
     <<FALSE, TRUE, FALSE, 2>>, <<FALSE, FALSE, FALSE, 3>>}

FeedInvalid ==
    /\ ~oob
    /\ \E c \in InvalidCalls :
        \E r \in ld2420_stream_feed(s, c[1], c[2], 0, c[4], c[3], TRUE) :
            /\ s' = r.s
            /\ ret' = r.ret
            /\ frames' = frames \o r.sink
            /\ oob' = r.oob
    /\ op' = "badargs"
    /\ UNCHANGED <<pending, scen, calls, rx, parsed, tx, wire, aux>>

\* ld2420_stream_init(&s) at any point, after which the byte source feeds a
\* known-good frame
StreamInit ==
    /\ ReinitAllowed(scen)
    /\ s' = ld2420_stream_init(s)
    /\ \E f \in ReinitFrames :
        /\ scen' = Scenario("reinit", <<>>, f)
        /\ pending' = f
    /\ frames' = <<>>
    /\ oob' = FALSE
    /\ op' = "init"
    /\ UNCHANGED <<ret, calls, rx, parsed, tx, wire, aux>>

Next ==
    \/ FeedByte
    \/ FeedChunk
    \/ FeedEmpty
    \/ FeedInvalid
    \/ StreamInit

Spec == Init /\ [][Next]_vars

(***************************************************************************)
(* A caller of the one-shot parser: one call on a buffer, by the library   *)
(* built for a little-endian or for a big-endian host                      *)
(***************************************************************************)
RxInit ==
    /\ s = ld2420_stream_init(
             [buffer |-> Zeros(BufferSize), index |-> 0,
              expected_total_size |-> 0, synced |-> FALSE])
    /\ scen = Scenario("parse", <<>>, <<>>)
    /\ pending = <<>>
    /\ frames = <<>>
    /\ ret = LD2420_STATUS_OK
    /\ op = "init"
    /\ oob = FALSE
    /\ calls = <<>>
    /\ rx \in RxCalls
    /\ parsed = NotParsed
    /\ tx = NoTx
    /\ wire = NoWire("none")
    /\ scan = NoScan
    /\ PlatIdle

\* ld2420_parse_rx_buffer(buf, size, &fs, &ce, &st), default build
ParseLE ==
    /\ parsed.build = "none"
    /\ LET r == ld2420_parse_rx_buffer(rx.mem, Len(rx.mem), rx.size, rx.prev)
       IN  parsed' = [build |-> "le", ret |-> r.ret, outs |-> r.outs]
    /\ UNCHANGED <<s, pending, scen, frames, ret, op, oob, calls, rx, tx, wire, aux>>

\* the same call with the library built with LD2420_PLATFORM_BE
ParseBE ==
    /\ parsed.build = "none"
    /\ LET r == ld2420_parse_rx_buffer_be(rx.mem, Len(rx.mem), rx.size,
                                          rx.prev, rx.addr)
       IN  parsed' = [build |-> "be", ret |-> r.ret, outs |-> r.outs]
    /\ UNCHANGED <<s, pending, scen, frames, ret, op, oob, calls, rx, tx, wire, aux>>

\* the call with a NULL buffer pointer, or with a buffer and a NULL output
\* pointer
ParseNull ==
    /\ parsed.build = "none"
    /\ \E bufNull, outNull \in BOOLEAN :
        /\ bufNull \/ outNull
        /\ parsed' = [build |-> IF bufNull THEN "nullbuf" ELSE "nullout",
                      ret |-> ld2420_parse_rx_buffer_null(bufNull, outNull),
                      outs |-> rx.prev]
    /\ UNCHANGED <<s, pending, scen, frames, ret, op, oob, calls, rx, tx, wire, aux>>

RxNext ==
    \/ ParseLE
    \/ ParseBE
    \/ ParseNull

ParseSpec == RxInit /\ [][RxNext]_vars

(***************************************************************************)
(* A caller that creates one TX command packet and serialises it           *)
(***************************************************************************)
TxInit ==
    /\ s = ld2420_stream_init(
             [buffer |-> Zeros(BufferSize), index |-> 0,
              expected_total_size |-> 0, synced |-> FALSE])
    /\ scen = Scenario("tx", <<>>, <<>>)
    /\ pending = <<>>
    /\ frames = <<>>
    /\ ret = LD2420_STATUS_OK
    /\ op = "init"
    /\ oob = FALSE
    /\ calls = <<>>
    /\ rx = NoCall
    /\ parsed = NotParsed
    /\ tx \in TxCalls
    /\ wire = NoWire("none")
    /\ scan = NoScan
    /\ PlatIdle

\* packet = ld2420_create_tx_command_packet(cmd, frame_data, frame_size, &st)
TxCreate ==
    /\ tx.packet.alloc = "none"
    /\ \E ok1, ok2 \in BOOLEAN :
        LET r == ld2420_create_tx_command_packet(
                     tx.cmd, tx.frame_data, tx.dataNull, tx.frame_size,
                     tx.status, ok1, ok2)
        IN  tx' = [tx EXCEPT !.packet = r.packet, !.status = r.status]
    /\ UNCHANGED <<s, pending, scen, frames, ret, op, oob, calls, rx, parsed,
                   wire, aux>>

\* ld2420_serialize_command_packet(packet, &out_size, &st), or with a NULL
\* out_size
TxSerialize ==
    /\ tx.packet.alloc # "none"
    /\ wire.state = "none"
    /\ \E outSizeNull, ok, crash \in BOOLEAN, uninit \in TxBytes :
        LET r == ld2420_serialize_command_packet(
                     tx.packet, outSizeNull, tx.status, ok, uninit, crash)
        IN  /\ wire' = r.wire
            /\ tx' = [tx EXCEPT !.status = r.status]
    /\ UNCHANGED <<s, pending, scen, frames, ret, op, oob, calls, rx, parsed,
                   aux>>

TxNext ==
    \/ TxCreate
    \/ TxSerialize

TxSpec == TxInit /\ [][TxNext]_vars

(***************************************************************************)
(* The byte source feeding a stream, each feed call that reaches           *)
(* resync_to_next_header followed through the iterations of its loop       *)
(***************************************************************************)
\* Streams that make feed resynchronise: a frame with a wrong footer byte
\* in front of zero bytes up to the buffer's capacity or of a frame, a frame
\* with a wrong length field or a candidate cut short in front of a frame,
\* and noise
ScanScenarios ==
    {sc \in Scenarios :
        \/ sc.kind = "footer" /\ sc.pre \in WrongFooter(MinFrame)
            /\ sc.post \in {Zeros(MaxFill), DocFrame}
        \/ sc.kind = "length" /\ sc.pre \in WrongLength(MinFrame)
            /\ sc.post = DocFrame
        \/ sc.kind = "truncated" /\ sc.pre \in Truncated(MinFrame)
            /\ sc.post = DocFrame
        \/ sc.kind = "noise" /\ sc.post = MinFrame}

ScanInit ==
    /\ s = ld2420_stream_init(
             [buffer |-> Zeros(BufferSize), index |-> 0,
              expected_total_size |-> 0, synced |-> FALSE])
    /\ scen \in ScanScenarios
    /\ pending = scen.pre \o scen.post
    /\ frames = <<>>
    /\ ret = LD2420_STATUS_OK
    /\ op = "init"
    /\ oob = FALSE
    /\ calls = <<>>
    /\ rx = NoCall
    /\ parsed = NotParsed
    /\ tx = NoTx
    /\ wire = NoWire("none")
    /\ scan = NoScan
    /\ PlatIdle

\* The call returns: the context, the status and the sink invocations of
\* ld2420_stream_feed(&s, &b, 1, cb) for the next byte of the source
ScanFeedReturns ==
    /\ \E sink_ret \in BOOLEAN :
        \E r \in ld2420_stream_feed(s, FALSE, FALSE, Head(pending), 1, FALSE,
                                    sink_ret) :
            /\ s' = r.s
            /\ ret' = r.ret
            /\ frames' = frames \o r.sink
            /\ oob' = r.oob
    /\ pending' = Tail(pending)
    /\ op' = "feed"
    /\ UNCHANGED <<scen, calls, rx, parsed, tx, wire>>

\* A feed call that does not reach resync_to_next_header: straight-line code
ScanCall ==
    /\ scan.pc = "idle" /\ ~oob /\ pending # <<>>
    /\ ~ResyncCall(s, Head(pending)).called
    /\ ScanFeedReturns
    /\ UNCHANGED scan
    /\ UNCHANGED plat

\* A feed call reaches resync_to_next_header: the loop variable is set
ScanEnter ==
    /\ scan.pc = "idle" /\ ~oob /\ pending # <<>>
    /\ ResyncCall(s, Head(pending)).called
    /\ LET target == ResyncCall(s, Head(pending)).s
       IN  scan' = [pc |-> "scan", i |-> ScanFirst(target), found |-> FALSE,
                    target |-> target]
    /\ UNCHANGED <<s, pending, scen, frames, ret, op, oob, calls, rx, parsed,
                   tx, wire, plat>>

\* One evaluation of the loop condition i >= 0 and, if it holds, one
\* iteration: the memcmp at position i, then the return or --i
ScanIter ==
    /\ scan.pc = "scan"
    /\ scan' =
         IF scan.i < 0 THEN [scan EXCEPT !.pc = "done"]
         ELSE IF MemEq(scan.target.buffer, scan.i, LD2420_BEG_COMMAND_PACKET)
         THEN [scan EXCEPT !.pc = "done", !.found = TRUE]
         ELSE [scan EXCEPT !.i = ScanAdvance(scan.i)]
    /\ UNCHANGED <<s, pending, scen, frames, ret, op, oob, calls, rx, parsed,
                   tx, wire, plat>>

\* The rest of resync_to_next_header and of feed, which has no loop
ScanReturn ==
    /\ scan.pc = "done"
    /\ ScanFeedReturns
    /\ scan' = NoScan
    /\ UNCHANGED plat

ScanNext ==
    \/ ScanCall
    \/ ScanEnter
    \/ ScanIter
    \/ ScanReturn

\* The processor runs the call in progress and the byte source feeds on
ScanSpec == ScanInit /\ [][ScanNext]_vars /\ WF_vars(ScanNext)

(***************************************************************************)
(* The Pico platform layer in use: bytes arrive on the UART at any time,   *)
(* the main loop calls ld2420_pico_process                                 *)
(***************************************************************************)
\* The library's own variables while the platform layer is followed
CoreIdle(kind) ==
    /\ s = ld2420_stream_init(
             [buffer |-> Zeros(BufferSize), index |-> 0,
              expected_total_size |-> 0, synced |-> FALSE])
    /\ scen = Scenario(kind, <<>>, <<>>)
    /\ pending = <<>>
    /\ frames = <<>>
    /\ ret = LD2420_STATUS_OK
    /\ op = "init"
    /\ oob = FALSE
    /\ calls = <<>>
    /\ rx = NoCall
    /\ parsed = NotParsed
    /\ tx = NoTx
    /\ wire = NoWire("none")
    /\ scan = NoScan

core ==
    <<s, pending, scen, frames, ret, op, oob, calls, rx, parsed, tx, wire,
      scan>>

MaxProcess == 3

\* n bytes of frame content, none of them the start-of-frame byte
Content(n, from) == [i \in 1..n |-> 1 + ((from + i) % 199)]

\* A frame that fills the assembler's buffer exactly (length byte 254) and
\* the first 255 bytes of one that cannot fit (length byte 255): 511 bytes
LongFrames ==
    <<LD2420_SOF, 254>> \o Content(254, 0)
        \o <<LD2420_SOF, 255>> \o Content(253, 50)

\* What is on the line and what the ring holds when the main loop starts
\* to call ld2420_pico_process: the ring empty at its first or at its last
\* but one slot and short frames behind noise on the line, or the ring
\* holding 510 or 511 bytes the handler stored while the main loop was busy
PicoScenarios ==
    {[t0 |-> t, pre |-> <<>>, line |-> l] :
        t \in {0, LD2420_UART_RINGBUF_SIZE - 2},
        l \in {<<LD2420_SOF, 2, 7, 9, LD2420_SOF, 0, 5>>,
               <<9, LD2420_SOF, 1, 8, LD2420_SOF>>}}
    \cup
    {[t0 |-> LD2420_UART_RINGBUF_SIZE - 2,
      pre |-> SubSeq(LongFrames, 1, n),
      line |-> <<3, 4, LD2420_SOF, 0>>] :
        n \in {LD2420_UART_RINGBUF_SIZE - 2, LD2420_UART_RINGBUF_SIZE - 1}}

\* The ring after the handler stored the bytes of pre from position t0 on,
\* none of them read yet (pre is shorter than the ring)
Prefilled(t0, pre) ==
    [buf |-> [i \in 1..LD2420_UART_RINGBUF_SIZE |->
                LET k == (i - 1 - t0) % LD2420_UART_RINGBUF_SIZE
                IN  IF k < Len(pre) THEN pre[k + 1] ELSE 0],
     head |-> (t0 + Len(pre)) % LD2420_UART_RINGBUF_SIZE,
     tail |-> t0,
     overflow |-> 0]

PicoInit ==
    /\ CoreIdle("pico")
    /\ \E sc \in PicoScenarios :
        pico = [PicoAt(sc.t0) EXCEPT !.rb = Prefilled(sc.t0, sc.pre),
                                     !.stored = sc.pre, !.line = sc.line]
    /\ exr = NoExample
    /\ snd = NoSend

\* uartN_rx_irq_handler for one received byte; it runs to its end before
\* the main loop goes on
PicoIrq ==
    /\ pico.line # <<>>
    /\ LET r == uart_rx_irq_byte(pico.rb, Head(pico.line))
       IN  pico' = [pico EXCEPT
                      !.rb = r,
                      !.line = Tail(pico.line),
                      !.stored = IF r.head # pico.rb.head
                                 THEN pico.stored \o <<Head(pico.line)>>
                                 ELSE pico.stored,
                      !.preempted = pico.preempted
                                      \/ pico.pc \in {"read", "advance"}]
    /\ UNCHANGED <<core, exr, snd>>

\* ld2420_pico_process(uart_index): the two checks, then the first
\* evaluation of the loop condition is due
PicoProcess ==
    /\ pico.pc = "idle"
    /\ pico.nproc < MaxProcess
    /\ \E uart_index \in 0..2 :
        pico' = IF ProcessRejects(uart_index)
                THEN [pico EXCEPT !.uart_index = uart_index, !.result = -1,
                                  !.ncb = 0, !.nproc = pico.nproc + 1]
                ELSE [pico EXCEPT !.uart_index = uart_index, !.pc = "test",
                                  !.frame_count = 0, !.ncb = 0,
                                  !.nproc = pico.nproc + 1]
    /\ UNCHANGED <<core, exr, snd>>

\* while (rb->tail != rb->head): the read of head; with the ring empty the
\* call returns frame_count
PicoTest ==
    /\ pico.pc = "test"
    /\ pico' = IF pico.rb.tail # pico.rb.head
               THEN [pico EXCEPT !.pc = "read"]
               ELSE [pico EXCEPT !.pc = "idle", !.result = pico.frame_count]
    /\ UNCHANGED <<core, exr, snd>>

\* uint8_t byte = rb->buf[rb->tail]
PicoRead ==
    /\ pico.pc = "read"
    /\ LET byte == pico.rb.buf[TailSlot(pico.rb) + 1]
       IN  pico' = [pico EXCEPT !.pc = "advance", !.byte = byte,
                                !.got = pico.got \o <<byte>>]
    /\ UNCHANGED <<core, exr, snd>>

\* rb->tail = (rb->tail + 1) % LD2420_UART_RINGBUF_SIZE and the rest of the
\* loop body, which works on the assembler alone
PicoAdvance ==
    /\ pico.pc = "advance"
    /\ LET r == AssembleByte(pico.fa, pico.byte,
                             rx_callbacks[pico.uart_index])
       IN  pico' = [pico EXCEPT
                      !.pc = "test",
                      !.rb.tail = RingNext(pico.rb.tail),
                      !.fa = r.fa,
                      !.last = IF r.cb # <<>> THEN r.cb[1] ELSE pico.last,
                      !.ncb = pico.ncb + Len(r.cb),
                      !.frame_count = Int16(pico.frame_count + Len(r.cb))]
    /\ UNCHANGED <<core, exr, snd>>

PicoNext ==
    \/ PicoIrq
    \/ PicoProcess
    \/ PicoTest
    \/ PicoRead
    \/ PicoAdvance

PicoSpec == PicoInit /\ [][PicoNext]_vars

\* Bytes the handler stored whose slot the consumer has not released
Unread ==
    Len(pico.stored) - Len(pico.got)
        + (IF pico.pc = "advance" THEN 1 ELSE 0)

(***************************************************************************)
(* The example's ring in use: bytes arrive at any time, the main loop      *)
(* reads bytes and then calls ld2420_pico_bytes_available                  *)
(***************************************************************************)
MaxIrq == 3
MaxReads == 2

\* Ring positions the handler and ld2420_pico_read_byte reach from the
\* initial ones: read_idx at the start, inside and at the end of the array,
\* the ring empty, nearly empty, filled up to the end of the array or full
ExampleRings ==
    {[read_idx |-> r, unread |-> u] :
        r \in {0, 5, LD2420_PICO_RX_BUFFER_SIZE - 2},
        u \in {0, 1, LD2420_PICO_RX_BUFFER_SIZE - 7,
               LD2420_PICO_RX_BUFFER_SIZE - 6,
               LD2420_PICO_RX_BUFFER_SIZE - 2,
               LD2420_PICO_RX_BUFFER_SIZE - 1}}

ExampleInit ==
    /\ CoreIdle("example")
    /\ pico = NoPico
    /\ snd = NoSend
    /\ \E ring \in ExampleRings :
        exr = [NoExample EXCEPT
                 !.read_idx = ring.read_idx,
                 !.write_idx = (ring.read_idx + ring.unread)
                                   % LD2420_PICO_RX_BUFFER_SIZE,
                 !.unread = ring.unread]

\* ld2420_pico_uart_irq_handler for one received byte
ExampleIrq ==
    /\ exr.irqs < MaxIrq
    /\ LET r == ExampleIrqByte(exr)
       IN  exr' = [r EXCEPT !.irqs = exr.irqs + 1,
                            !.unread = IF r.write_idx # exr.write_idx
                                       THEN exr.unread + 1
                                       ELSE exr.unread]
    /\ UNCHANGED <<core, pico, snd>>

\* ld2420_pico_read_byte, called from the main loop between two calls
ExampleRead ==
    /\ exr.pc = "idle"
    /\ exr.reads < MaxReads
    /\ LET r == ExampleReadByte(exr)
       IN  exr' = [r EXCEPT !.reads = exr.reads + 1,
                            !.unread = IF r.read_idx # exr.read_idx
                                       THEN exr.unread - 1
                                       ELSE exr.unread]
    /\ UNCHANGED <<core, pico, snd>>

\* ld2420_pico_bytes_available(config) is entered
ExampleCall ==
    /\ exr.pc = "idle"
    /\ exr' = [exr EXCEPT !.pc = "compare", !.entry = exr.unread]
    /\ UNCHANGED <<core, pico, snd>>

\* if (rb->write_idx >= rb->read_idx): the first read of write_idx
ExampleCompare ==
    /\ exr.pc = "compare"
    /\ exr' = [exr EXCEPT !.pc = "return",
                          !.geq = exr.write_idx >= exr.read_idx]
    /\ UNCHANGED <<core, pico, snd>>

\* the return statement of the branch taken: the second read of write_idx
ExampleReturn ==
    /\ exr.pc = "return"
    /\ exr' = [exr EXCEPT
                 !.pc = "done",
                 !.result = BytesAvailableValue(exr.geq, exr.write_idx,
                                                exr.read_idx),
                 !.atret = exr.unread]
    /\ UNCHANGED <<core, pico, snd>>

ExampleNext ==
    \/ ExampleIrq
    \/ ExampleRead
    \/ ExampleCall
    \/ ExampleCompare
    \/ ExampleReturn

ExampleSpec == ExampleInit /\ [][ExampleNext]_vars

(***************************************************************************)
(* Two callers of ld2420_pico_send_safe, one on each core                  *)
(***************************************************************************)
MaxSends == 1
MaxSendLen == 2

Callers == {1, 2}

\* The buffer caller t passes in a call of the given size
SendBuffer(t, size) == [i \in 1..size |-> 16 * t + i]

\* The arguments of a call: a UART and a buffer of 1..MaxSendLen bytes, or
\* a NULL UART, a NULL buffer or a size of 0
SendCalls ==
    {[uartNull |-> FALSE, bufNull |-> FALSE, size |-> n] : n \in 0..MaxSendLen}
    \cup {[uartNull |-> TRUE, bufNull |-> FALSE, size |-> 1],
          [uartNull |-> FALSE, bufNull |-> TRUE, size |-> 1]}

SendInit ==
    /\ CoreIdle("send")
    /\ pico = NoPico
    /\ exr = NoExample
    /\ snd = NoSend

\* Caller t calls ld2420_pico_send_safe(uart_instance, buffer, buffer_size)
SendCall(t) ==
    /\ snd.pc[t] = "idle"
    /\ snd.done[t] < MaxSends
    /\ \E call \in SendCalls :
        snd' = [snd EXCEPT !.pc[t] = "enter", !.call[t] = call,
                           !.sent[t] = 0,
                           !.waited[t] = ~MutexFree(snd.owner)]
    /\ UNCHANGED <<core, pico, exr>>

\* mutex_enter_blocking(&ld2420_uart_tx_mutex) returns to caller t
SendEnter(t) ==
    /\ snd.pc[t] = "enter"
    /\ MutexFree(snd.owner)
    /\ snd' = [snd EXCEPT !.pc[t] = "check", !.owner = snd.owner \cup {t}]
    /\ UNCHANGED <<core, pico, exr>>

\* the test of the arguments
SendCheck(t) ==
    /\ snd.pc[t] = "check"
    /\ snd' = [snd EXCEPT !.pc[t] = IF SendRejects(snd.call[t])
                                    THEN "reject" ELSE "write"]
    /\ UNCHANGED <<core, pico, exr>>

\* uart_write_blocking hands the next byte of the buffer to the UART
SendWrite(t) ==
    /\ snd.pc[t] = "write"
    /\ LET k == snd.sent[t] + 1
       IN  snd' = [snd EXCEPT
                     !.out = snd.out \o
                         <<[caller |-> t, nth |-> snd.done[t] + 1,
                            byte |-> SendBuffer(t, snd.call[t].size)[k]]>>,
                     !.sent[t] = k,
                     !.pc[t] = IF k = snd.call[t].size
                               THEN "written" ELSE "write"]
    /\ UNCHANGED <<core, pico, exr>>

\* mutex_exit(&ld2420_uart_tx_mutex) and the return, on either path
SendExit(t) ==
    /\ snd.pc[t] \in {"reject", "written"}
    /\ snd' = [snd EXCEPT
                 !.owner = {},
                 !.pc[t] = "idle",
                 !.call[t] = NoSendCall,
                 !.sent[t] = 0,
                 !.done[t] = snd.done[t] + 1,
                 !.status[t] = IF snd.pc[t] = "reject"
                               THEN LD2420_STATUS_ERROR_INVALID_ARGUMENTS
                               ELSE LD2420_STATUS_OK]
    /\ UNCHANGED <<core, pico, exr>>

\* What caller t does once inside the function
SendRun(t) ==
    \/ SendEnter(t)
    \/ SendCheck(t)
    \/ SendWrite(t)
    \/ SendExit(t)

SendNext ==
    \E t \in Callers :
        \/ SendCall(t)
        \/ SendEnter(t)
        \/ SendCheck(t)
        \/ SendWrite(t)
        \/ SendExit(t)

\* Each core keeps executing the call it is in, and the UART keeps taking
\* the bytes handed to it
SendSpec ==
    /\ SendInit
    /\ [][SendNext]_vars
    /\ \A t \in Callers : WF_vars(SendRun(t))

(***************************************************************************)
(* Properties                                                              *)
(***************************************************************************)
\* What the sink receives when the valid frame f alone is fed byte by byte:
\* the frame itself, its byte count, the low byte of the command echo and
\* the low byte of the status word
EmissionOf(f) ==
    [frame |-> f, frame_size_bytes |-> Len(f),
     cmd_echo |-> f[PACKET_CMD_ECHO_OFFSET + 1],
     status |-> f[PACKET_STATUS_OFFSET + 1],
     index |-> Len(f)]

Corrupted == {"truncated", "footer", "length"}

\* C1: whenever feed returns, index is at most 154 and no byte was stored
\* at an offset of 154 or more.
C1_IndexWithinBuffer ==
    s.index <= LD2420_MAX_RX_PACKET_SIZE /\ ~oob

\* C2: a valid frame fed byte by byte from the initial state: every feed
\* before the last returns OK without a sink invocation, the last one
\* invokes the sink exactly once with frame_size_bytes = 10 + L; for the
\* frame of the test the sink gets size 18, cmd_echo 0x00FF, status 0.
C2_ValidFrameEmittedOnLastByte ==
    scen.kind = "plain" =>
        /\ pending # <<>> => frames = <<>> /\ (op = "feed" => ret = LD2420_STATUS_OK)
        /\ pending = <<>> =>
            /\ Len(frames) = 1
            /\ frames[1].frame = scen.post
            /\ frames[1].frame_size_bytes = 10 + LengthOf(scen.post)
            /\ scen.post = DocFrame =>
                /\ frames[1].frame_size_bytes = 18
                /\ frames[1].cmd_echo = 255
                /\ frames[1].status = 0

C2_Witness ==
    /\ scen.kind = "plain" /\ scen.post = DocFrame
    /\ pending = <<>> /\ op = "feed" /\ Len(frames) = 1

\* C3: every sink invocation gets a buffer that starts with the header,
\* whose size is 10 + its length field, that ends with the footer, with
\* exactly that many bytes accumulated, and a size within 14..154.
WholeFrame(call) ==
    /\ Len(call.frame) = call.frame_size_bytes
    /\ call.frame_size_bytes >= LD2420_MIN_RX_PACKET_SIZE
    /\ call.frame_size_bytes <= LD2420_MAX_RX_PACKET_SIZE
    /\ SubSeq(call.frame, 1, HeaderSize) = LD2420_BEG_COMMAND_PACKET
    /\ call.frame_size_bytes = 10 + LengthOf(call.frame)
    /\ SubSeq(call.frame, call.frame_size_bytes - FooterSize + 1,
              call.frame_size_bytes) = LD2420_END_COMMAND_PACKET
    /\ call.index = call.frame_size_bytes

C3_NoPartialFrameDelivered ==
    \A i \in 1..Len(frames) : WholeFrame(frames[i])

C3_Witness ==
    /\ scen.kind = "length" /\ op = "feed" /\ Len(frames) = 1
    /\ frames[1].frame_size_bytes = LD2420_MAX_RX_PACKET_SIZE

\* C4: a corrupted variant of F1 (truncated, wrong footer, wrong length)
\* followed by a valid frame F2, fed byte by byte from the initial state,
\* invokes the sink exactly once, with F2.
C4_CorruptThenValidEmitsSecond ==
    (scen.kind \in Corrupted /\ scen.post \in SecondFrames /\ pending = <<>>)
        => frames = <<EmissionOf(scen.post)>>

\* C5: noise holding no header marker, followed by a valid frame F, fed
\* byte by byte from the initial state, invokes the sink exactly once, with
\* the frame bytes, size, cmd_echo and status that feeding F alone gives.
C5_NoiseThenFrameEmitsFrame ==
    scen.kind = "noise" =>
        /\ pending # <<>> => frames = <<>>
        /\ pending = <<>> => frames = <<EmissionOf(scen.post)>>

C5_Witness ==
    /\ scen.kind = "noise" /\ Len(scen.pre) = MaxNoiseLen
    /\ pending = <<>> /\ Len(frames) = 1

\* C6: after ld2420_stream_init called in any state, a valid frame fed byte
\* by byte invokes the sink exactly once, with that frame's fields.
C6_InitThenFrameEmitsFrame ==
    scen.kind = "reinit" =>
        /\ pending # <<>> => frames = <<>>
        /\ pending = <<>> => frames = <<EmissionOf(scen.post)>>

\* the frame was emitted although init was called with stale bytes buffered
C6_Witness ==
    /\ scen.kind = "reinit" /\ pending = <<>> /\ Len(frames) = 1
    /\ \E i \in (Len(scen.post) + 1)..BufferSize : s.buffer[i] # 0

C8_InvalidCallRejected ==
    [][op' = "badargs" =>
        /\ ret' = LD2420_STATUS_ERROR_INVALID_ARGUMENTS
        /\ s' = s
        /\ frames' = frames]_vars

\* C9: feed with len = 0 and a non-NULL sink returns OK, invokes no sink
\* and leaves buffer, index, synced and expected_total_size unchanged.
C9_EmptyFeedIsNoOp ==
    [][op' = "empty" =>
        /\ ret' = LD2420_STATUS_OK
        /\ s' = s
        /\ frames' = frames]_vars

C9_Witness ==
    /\ op = "empty" /\ s.synced /\ s.expected_total_size > 0
    /\ s.index > HeaderSize + 2

\* C10 as stated: AA BB FD in one call, then FC FB FA 02 00 00 00 04 03 02 01
\* in a second call, invokes the sink exactly once, with a frame of length 2.
SplitHeaderRun ==
    /\ scen.kind = "chunks"
    /\ scen.pre = <<170, 187>> /\ scen.post = ShortFrame(2)
    /\ calls = <<3, 11>>

ParseOf(f) == ld2420_parse_rx_buffer(f, Len(f), Len(f), StaleOuts)

\* C11: the 14-byte frame (length field 4) and the 154-byte frame (length
\* field 144) are accepted: ld2420_parse_rx_buffer returns OK on them, and
\* the assembler fed byte by byte from its initial state emits each once.
C11_BoundarySizesAccepted ==
    (scen.kind = "plain" /\ scen.post \in {MinFrame, MaxFrame}) =>
        /\ Len(scen.post) \in
               {LD2420_MIN_RX_PACKET_SIZE, LD2420_MAX_RX_PACKET_SIZE}
        /\ ParseOf(scen.post).ret = LD2420_STATUS_OK
        /\ pending # <<>> => frames = <<>>
        /\ pending = <<>> => frames = <<EmissionOf(scen.post)>>

C11_Witness ==
    /\ scen.kind = "plain" /\ scen.post = MaxFrame
    /\ pending = <<>> /\ frames = <<EmissionOf(MaxFrame)>>
    /\ ParseOf(MinFrame).ret = LD2420_STATUS_OK

\* C12: a 13-byte frame (length field 3) or a 155-byte frame (length field
\* 145) fed byte by byte never invokes the sink, every byte is stored inside
\* the buffer, and a valid frame fed right after it is emitted exactly once
\* with its fields.
C12_OffByOneFrameThenValid ==
    scen.kind = "boundary" =>
        /\ ~oob
        /\ Len(pending) >= Len(scen.post) => frames = <<>>
        /\ pending = <<>> => frames = <<EmissionOf(scen.post)>>

\* C13: ld2420_parse_rx_buffer returns an error for every buffer whose
\* buffer_size is below 14 or above 154.
C13_OutOfRangeSizeRejected ==
    (parsed.build # "none"
        /\ (rx.size < LD2420_MIN_RX_PACKET_SIZE
            \/ rx.size > LD2420_MAX_RX_PACKET_SIZE))
        => parsed.ret # LD2420_STATUS_OK

\* C14 as stated: when ld2420_parse_rx_buffer returns a non-OK status, none
\* of out_frame_size, out_cmd_echo, out_status has been modified.
C14_OutputsUntouchedOnError ==
    (parsed.build # "none" /\ parsed.ret # LD2420_STATUS_OK)
        => parsed.outs = rx.prev

\* C14 amended: when ld2420_parse_rx_buffer, given non-NULL arguments,
\* returns a non-OK status, out_cmd_echo and out_status have not been
\* modified and out_frame_size holds the 16-bit little-endian value of
\* bytes 4..5 of the buffer.
C14_OnlyFrameSizeWrittenOnError ==
    (parsed.build \in {"le", "be"} /\ parsed.ret # LD2420_STATUS_OK) =>
        /\ parsed.outs.out_cmd_echo = rx.prev.out_cmd_echo
        /\ parsed.outs.out_status = rx.prev.out_status
        /\ parsed.outs.out_frame_size = rx.mem[5] + 256 * rx.mem[6]

C14_Witness ==
    /\ parsed.build = "le"
    /\ parsed.ret = LD2420_STATUS_ERROR_INVALID_FOOTER
    /\ parsed.outs.out_frame_size = 8
    /\ rx.prev.out_frame_size # 8

\* C15: ld2420_parse_rx_buffer returns OK only if 4 + 2 + Length + 4, over
\* the unbounded integers, equals buffer_size.
C15_LengthCheckedWithoutWrap ==
    (parsed.build # "none" /\ parsed.ret = LD2420_STATUS_OK) =>
        HeaderSize + 2 + (rx.mem[5] + 256 * rx.mem[6]) + FooterSize = rx.size

\* C16: for every accepted buffer, out_status is the 16-bit little-endian
\* value of bytes 8..9 and out_frame_size that of bytes 4..5.
C16_FullStatusWord ==
    (parsed.build = "le" /\ parsed.ret = LD2420_STATUS_OK) =>
        /\ parsed.outs.out_status = rx.mem[9] + 256 * rx.mem[10]
        /\ parsed.outs.out_frame_size = rx.mem[5] + 256 * rx.mem[6]

\* C17: the parser built with LD2420_PLATFORM_BE returns the status and
\* writes the out_frame_size, out_cmd_echo and out_status that the default
\* build returns and writes for the same buffer.
C17_BuildsAgree ==
    parsed.build = "be" =>
        LET le == ld2420_parse_rx_buffer(rx.mem, Len(rx.mem), rx.size, rx.prev)
        IN  parsed.ret = le.ret /\ parsed.outs = le.outs

\* C18: a feed call invokes the sink at most once, and only a single-byte
\* call whose byte brought index to expected_total_size, with the footer in
\* place and the one-shot parser returning OK on the buffer; the sink gets
\* that buffer, before the call returns.
C18_SinkOncePerCompleteFrame ==
    [][(op' # "init" /\ frames' # frames) =>
        LET s1 == AppendByte(s, Head(pending))
            n  == s.expected_total_size
        IN  /\ op' = "feed"
            /\ Len(frames') = Len(frames) + 1
            /\ SubSeq(frames', 1, Len(frames)) = frames
            /\ s.synced /\ n > 0 /\ s1.index = n
            /\ MemEq(s1.buffer, n - FooterSize, LD2420_END_COMMAND_PACKET)
            /\ ld2420_parse_rx_buffer(s1.buffer, BufferSize, U8(n), ZeroOuts).ret
                   = LD2420_STATUS_OK
            /\ frames'[Len(frames')].frame = SubSeq(s1.buffer, 1, n)]_vars

C18_Witness ==
    /\ scen.kind = "boundary" /\ scen.pre = ShortFrame(3)
    /\ pending = <<>> /\ op = "feed" /\ Len(frames) = 1

\* C19: the bool the sink returns has no influence: in every state, the feed
\* of the next byte leaves the same context, returns the same status and
\* makes the same sink invocation whether the sink returns true or false.
C19_SinkReturnIgnored ==
    (~oob /\ pending # <<>>) =>
        ld2420_stream_feed(s, FALSE, FALSE, Head(pending), 1, FALSE, TRUE)
            = ld2420_stream_feed(s, FALSE, FALSE, Head(pending), 1, FALSE, FALSE)

\* a second frame was emitted after the sink had returned for the first
C19_Witness ==
    /\ scen.kind = "pair" /\ pending = <<>>
    /\ frames = <<EmissionOf(scen.pre), EmissionOf(scen.post)>>

\* C20 as stated: a feed call that invoked the sink returns a status other
\* than the one a call that merely buffered a byte returns (OK).
C20_StatusTellsEmission ==
    [][(op' = "feed" /\ frames' # frames) => ret' # LD2420_STATUS_OK]_vars

\* C20 amended: a feed call that invoked the sink returns OK, the status a
\* call that buffered a byte of a valid frame returns too; the status does
\* not tell an emission from a buffered byte.
C20_EmissionReturnsOK ==
    [][(op' = "feed" /\ ~oob') =>
        /\ frames' # frames => ret' = LD2420_STATUS_OK
        /\ (scen.kind = "plain" /\ frames' = frames) =>
               ret' = LD2420_STATUS_OK]_vars

C20_Witness ==
    /\ scen.kind = "plain" /\ scen.post = FooterInside
    /\ pending = <<>> /\ op = "feed" /\ Len(frames) = 1
    /\ ret = LD2420_STATUS_OK

\* Bytes of the scenario's stream fed so far
Consumed == Len(scen.pre) + Len(scen.post) - Len(pending)

\* C21: when the byte fed brings the number of buffered bytes to the
\* expected total size and the last 4 buffered bytes are not 04 03 02 01,
\* feed returns INVALID_FOOTER and invokes no sink.
C21_FooterMismatchReported ==
    [][(op' = "feed" /\ s.synced /\ s.expected_total_size > 0
            /\ s.index + 1 = s.expected_total_size
            /\ SubSeq(AppendByte(s, Head(pending)).buffer,
                      s.expected_total_size - FooterSize + 1,
                      s.expected_total_size) # LD2420_END_COMMAND_PACKET)
        => (ret' = LD2420_STATUS_ERROR_INVALID_FOOTER /\ frames' = frames)]_vars

C21_Witness ==
    /\ scen.kind = "footer" /\ op = "feed" /\ Consumed = Len(scen.pre)
    /\ ret = LD2420_STATUS_ERROR_INVALID_FOOTER /\ frames = <<>>

\* Offsets of the buffered bytes at which the header marker starts
MarkerOffsets(ctx) ==
    {i \in 0..(ctx.index - HeaderSize) :
        SubSeq(ctx.buffer, i + 1, i + HeaderSize) = LD2420_BEG_COMMAND_PACKET}

\* C22: after a feed call returned INVALID_FOOTER or BUFFER_TOO_SMALL and the
\* buffered bytes hold no header marker behind offset 0, the rejected
\* candidate is gone: its header is not at offset 0 and its bytes are not
\* counted in index.
C22_RejectedCandidateDiscarded ==
    (op = "feed" /\ ~oob
        /\ ret \in {LD2420_STATUS_ERROR_INVALID_FOOTER,
                    LD2420_STATUS_ERROR_BUFFER_TOO_SMALL}
        /\ MarkerOffsets(s) \subseteq {0})
        => (MarkerOffsets(s) = {} /\ s.index < HeaderSize /\ ~s.synced)

\* C23: a fully buffered candidate with the header, a length field of 0, 1,
\* 2 or 3 and the footer makes feed return INVALID_PACKET on its last byte,
\* invokes no sink, and leaves index = 0, synced = false,
\* expected_total_size = 0.
C23_ShortLengthRejected ==
    scen.kind = "short" =>
        /\ frames = <<>>
        /\ (pending = <<>> /\ op = "feed") =>
            /\ ret = LD2420_STATUS_ERROR_INVALID_PACKET
            /\ s.index = 0 /\ ~s.synced /\ s.expected_total_size = 0

C23_Witness ==
    /\ scen.kind = "short" /\ scen.post = ShortFrame(0) /\ scen.pre = <<>>
    /\ pending = <<>> /\ op = "feed"
    /\ ret = LD2420_STATUS_ERROR_INVALID_PACKET

\* Streams that start with a header whose length field gives a total above
\* 154 and hold no other header marker before the second frame
OversizedFirst ==
    /\ scen.kind \in {"length", "boundary"}
    /\ HeaderSize + 2 + LengthOf(scen.pre) + FooterSize
           > LD2420_MAX_RX_PACKET_SIZE

\* C24: feed returns BUFFER_TOO_SMALL on the byte that completes a length
\* field giving a total above 154, and accumulates nothing further for that
\* candidate: the following bytes are not appended behind the rejected
\* header and do not make feed return BUFFER_TOO_SMALL again.
C24_OversizedReportedOnce ==
    (OversizedFirst /\ op = "feed" /\ ~oob) =>
        /\ Consumed = HeaderSize + 2 =>
               ret = LD2420_STATUS_ERROR_BUFFER_TOO_SMALL
        /\ (Consumed > HeaderSize + 2 /\ Consumed <= Len(scen.pre)) =>
            /\ ret # LD2420_STATUS_ERROR_BUFFER_TOO_SMALL
            /\ s.index < HeaderSize + 2

\* C25: after an emission index = 0, synced = false, expected_total_size = 0,
\* and valid frames fed back to back, byte by byte, are emitted one sink
\* invocation each, in stream order, with the fields of each frame.
C25_BackToBackFramesEmitted ==
    /\ scen.kind = "pair" =>
        /\ Consumed < Len(scen.pre) => frames = <<>>
        /\ (Consumed >= Len(scen.pre) /\ pending # <<>>) =>
               frames = <<EmissionOf(scen.pre)>>
        /\ (Consumed = Len(scen.pre) /\ op = "feed") =>
               s.index = 0 /\ ~s.synced /\ s.expected_total_size = 0
        /\ pending = <<>> =>
               frames = <<EmissionOf(scen.pre), EmissionOf(scen.post)>>
    /\ scen.kind = "train" =>
        /\ \A n \in 0..(Len(FrameTrain) - 1) :
            (Consumed >= Len(Flatten(FrameTrain, n))
                /\ Consumed < Len(Flatten(FrameTrain, n + 1)))
                => frames = [i \in 1..n |-> EmissionOf(FrameTrain[i])]
        /\ pending = <<>> =>
               frames = [i \in 1..Len(FrameTrain) |-> EmissionOf(FrameTrain[i])]

C25_Witness ==
    /\ scen.kind = "train" /\ pending = <<>> /\ op = "feed"
    /\ Len(frames) = Len(FrameTrain) /\ s.index = 0 /\ ~s.synced

\* C26: every status ld2420_parse_rx_buffer returns, a NULL buffer
\* included, and every status ld2420_stream_feed returns is one of the
\* values of the enumeration ld2420_status_t.
C26_StatusInEnumeration ==
    /\ parsed.build # "none" => parsed.ret \in ld2420_status_t
    /\ ret \in ld2420_status_t

C28_ResyncPicksLastHeader ==
    [][(/\ op' = "feed" /\ ~oob'
        /\ s.index < BufferSize
        /\ ret' \in {LD2420_STATUS_ERROR_INVALID_FOOTER,
                      LD2420_STATUS_ERROR_BUFFER_TOO_SMALL}
        /\ Cardinality(MarkerOffsets(AppendByte(s, Head(pending)))) > 1) =>
        LET old == AppendByte(s, Head(pending))
            hi  == CHOOSE i \in MarkerOffsets(old) :
                        \A j \in MarkerOffsets(old) : j <= i
        IN  /\ s'.index = old.index - hi
            /\ SubSeq(s'.buffer, 1, s'.index)
                    = SubSeq(old.buffer, hi + 1, old.index)
            /\ s'.synced
            /\ s'.expected_total_size = 0]_vars

\* A candidate cut short failed its footer check with the next frame's
\* header and more already behind it: the buffer holds exactly the bytes of
\* the next frame fed so far
C28_Witness ==
    /\ scen.kind = "truncated" /\ op = "feed"
    /\ ret = LD2420_STATUS_ERROR_INVALID_FOOTER
    /\ s.synced /\ s.expected_total_size = 0
    /\ s.index > HeaderSize
    /\ s.index = Consumed - Len(scen.pre)
    /\ SubSeq(s.buffer, 1, s.index) = SubSeq(scen.post, 1, s.index)

\* Candidates that lack their last 1 to 3 bytes: fed in front of another
\* frame, they are completed by the first bytes of that frame's header
SplitHeaderCandidates ==
    {SubSeq(b, 1, Len(b) - k) : b \in CorruptBase, k \in 1..(HeaderSize - 1)}

\* C29: a candidate fails its footer check because its last bytes are the
\* first 1 to 3 bytes of the next frame's header; once the remaining bytes
\* of that next, valid frame are fed, it has been emitted (and nothing
\* else).
C29_SplitHeaderFrameEmitted ==
    (scen.kind = "truncated" /\ scen.pre \in SplitHeaderCandidates
        /\ pending = <<>>)
        => frames = <<EmissionOf(scen.post)>>

\* C30: in every reachable state, synced = true implies index >= 4 and
\* buffer[0..3] = FD FC FB FA.
C30_SyncedMeansHeaderAtFront ==
    s.synced =>
        /\ s.index >= HeaderSize
        /\ SubSeq(s.buffer, 1, HeaderSize) = LD2420_BEG_COMMAND_PACKET

\* C31: whenever feed has returned and the assembler is not synced, it
\* holds at most 3 bytes and no expected size: index <= 3 and
\* expected_total_size = 0.
C31_ScanningHoldsAtMostThree ==
    ~s.synced => (s.index <= HeaderSize - 1 /\ s.expected_total_size = 0)

\* The fourth byte of a stream without a header so far has been fed: the
\* oldest byte was dropped
C31_Witness ==
    /\ scen.kind = "noise" /\ op = "feed"
    /\ Consumed > HeaderSize - 1
    /\ ~s.synced /\ s.index = HeaderSize - 1 /\ frames = <<>>

\* C32: whenever feed has returned, expected_total_size is 0 or within
\* 10..154, and when it is not 0 the cursor is below it:
\* index < expected_total_size.
C32_CursorBelowExpectedSize ==
    /\ s.expected_total_size = 0
        \/ s.expected_total_size \in
               (HeaderSize + 2 + FooterSize)..LD2420_MAX_RX_PACKET_SIZE
    /\ s.expected_total_size # 0 => s.index < s.expected_total_size

\* C33: a valid frame whose inner region holds the header marker or the
\* footer marker, fed byte by byte from the initial state, is neither split
\* nor restarted: until its last byte nothing is emitted and every byte fed
\* stays buffered behind the frame's header; with the last byte the whole
\* frame is emitted, once, and nothing else.
C33_InnerMarkersDoNotSplit ==
    scen.kind = "inner" =>
        /\ pending # <<>> =>
            /\ frames = <<>>
            /\ Consumed >= HeaderSize =>
                /\ s.synced /\ s.index = Consumed
                /\ SubSeq(s.buffer, 1, s.index) = SubSeq(scen.post, 1, Consumed)
        /\ pending = <<>> => frames = <<EmissionOf(scen.post)>>

\* The frame with the header marker at the end of its inner region, right
\* in front of the footer, has been emitted
C33_Witness ==
    /\ scen.kind = "inner" /\ pending = <<>> /\ op = "feed"
    /\ SubSeq(scen.post, 11, 14) = LD2420_BEG_COMMAND_PACKET
    /\ Len(frames) = 1 /\ frames[1].frame = scen.post

\* C34: every feed call terminates and returns: within the scan of
\* resync_to_next_header the position examined is a buffered one and
\* strictly decreases from one iteration to the next, so each position is
\* visited at most once, the loop ends where the one-step model of the scan
\* says it ends, and the call in progress always comes to its return.
C34_FeedTerminates ==
    /\ [][scan.pc = "scan" =>
            /\ scan'.pc = "scan" =>
                /\ scan'.i < scan.i
                /\ scan.i \in 0..(scan.target.index - HeaderSize)
            /\ scan'.pc = "done" =>
                /\ scan'.found = resync_to_next_header(scan.target).found
                /\ scan'.found => scan'.i = LastHeaderOffset(scan.target)]_vars
    /\ (scan.pc # "idle") ~> (scan.pc = "idle" /\ op = "feed")

\* The scan of a full buffer has gone from position 150 down to the header
\* at position 0
C34_Witness ==
    /\ scan.pc = "done" /\ scan.found /\ scan.i = 0
    /\ scan.target.index = BufferSize


\* C35: in the RX ring of ld2420_pico.c, with the interrupt handler running
\* between any two memory accesses of the consumer, the bytes the consumer
\* has read are the bytes the handler stored, in the order of their arrival
\* and each once (the sequence read is a prefix of the sequence stored, tail
\* stands one slot further for every byte released, head one slot further
\* for every byte stored), so no slot is read before the handler wrote it
C35_ConsumerReadsInArrivalOrder ==
    /\ Len(pico.got) <= Len(pico.stored)
    /\ pico.got = SubSeq(pico.stored, 1, Len(pico.got))
    /\ pico.rb.tail =
         (pico.t0 + Len(pico.stored) - Unread) % LD2420_UART_RINGBUF_SIZE
    /\ pico.rb.head = (pico.t0 + Len(pico.stored)) % LD2420_UART_RINGBUF_SIZE

\* The handler ran between the consumer's test and its read or between its
\* read and its store to tail, head wrapped around the end of the array,
\* and the consumer has read all seven bytes of the line
C35_Witness ==
    /\ pico.preempted
    /\ pico.t0 = LD2420_UART_RINGBUF_SIZE - 2
    /\ Len(pico.got) = 7
    /\ pico.got = pico.stored
    /\ pico.pc = "idle"

\* C36: the ring never holds more than LD2420_UART_RINGBUF_SIZE - 1 = 511
\* unread bytes, and a byte that arrives while it holds 511 is dropped: the
\* overflow counter grows by one, head, tail and every slot stay as they are
C36_FullRingDropsByte ==
    /\ [](Unread <= LD2420_UART_RINGBUF_SIZE - 1)
    /\ [][(pico'.line # pico.line /\ Unread = LD2420_UART_RINGBUF_SIZE - 1) =>
            /\ pico'.rb = [pico.rb EXCEPT !.overflow = pico.rb.overflow + 1]
            /\ pico'.stored = pico.stored]_vars

\* A byte has been dropped and the ring still holds 511 unread bytes
C36_Witness ==
    /\ pico.rb.overflow = 1
    /\ Unread = LD2420_UART_RINGBUF_SIZE - 1
    /\ Len(pico.line) = 3

\* C39 as stated: len is at most 256, every buffer passed to the callback
\* starts with 0xF4 and is 2 + its second byte long, and every
\* ld2420_pico_process call returns the number of callback invocations it
\* made
C39_ReturnCountsCallbacks ==
    /\ pico.fa.len <= LD2420_MAX_FRAME_SIZE
    /\ pico.last.len > 0 =>
         /\ pico.last.buf[1] = LD2420_SOF
         /\ pico.last.len = 2 + pico.last.buf[2]
    /\ (pico.pc = "idle" /\ pico.nproc > 0) => pico.result = pico.ncb

\* C39, amended: len is at most 256, every buffer passed to the callback
\* starts with 0xF4 and is 2 + its second byte long; a ld2420_pico_process
\* call for a UART index above 1 or for a UART without a callback returns
\* -1 and invokes no callback, every other call returns the number of
\* callback invocations it made
C39_AssemblerDeliversWholeFrames ==
    /\ pico.fa.len <= LD2420_MAX_FRAME_SIZE
    /\ pico.last.len > 0 =>
         /\ pico.last.buf[1] = LD2420_SOF
         /\ pico.last.len = 2 + pico.last.buf[2]
    /\ (pico.pc = "idle" /\ pico.nproc > 0) =>
         IF ProcessRejects(pico.uart_index)
         THEN pico.result = -1 /\ pico.ncb = 0
         ELSE pico.result = pico.ncb

\* A call has returned 2 after it passed the frame of 256 bytes and, behind
\* the frame too long for the buffer, the frame of 2 bytes to the callback
C39_Witness ==
    /\ pico.pc = "idle"
    /\ pico.result = 2
    /\ pico.ncb = 2
    /\ pico.last.len = 2
    /\ Len(pico.got) = LD2420_UART_RINGBUF_SIZE + 3


\* C37: every ld2420_pico_bytes_available call, with the interrupt handler
\* running between any two of its reads of write_idx and read_idx, returns
\* a value in 0..255 that is at least the number of unread bytes at the
\* call's entry and at most the number at its return
C37_BytesAvailableBetweenEntryAndReturn ==
    exr.pc = "done" =>
        /\ exr.result \in 0..(LD2420_PICO_RX_BUFFER_SIZE - 1)
        /\ exr.entry <= exr.result
        /\ exr.result <= exr.atret

\* The bytes written to the UART by one call stand together
SendContiguous ==
    \A i, j \in 1..Len(snd.out) :
        (/\ i < j
         /\ snd.out[i].caller = snd.out[j].caller
         /\ snd.out[i].nth = snd.out[j].nth)
        => \A k \in i..j :
               /\ snd.out[k].caller = snd.out[i].caller
               /\ snd.out[k].nth = snd.out[i].nth

\* The bytes written by one call are the bytes of its buffer, in order
SendInOrder ==
    \A i \in 1..Len(snd.out) :
        LET before == {k \in 1..(i - 1) :
                          /\ snd.out[k].caller = snd.out[i].caller
                          /\ snd.out[k].nth = snd.out[i].nth}
        IN  snd.out[i].byte =
                SendBuffer(snd.out[i].caller, MaxSendLen + 1)[
                    Cardinality(before) + 1]

\* The callers between mutex_enter_blocking and mutex_exit
SendInside ==
    {t \in Callers : snd.pc[t] \in {"check", "write", "reject", "written"}}

\* C38: at most one caller is between mutex_enter_blocking and mutex_exit;
\* the bytes of one call's buffer reach the UART in order and without a
\* byte of another call among them; a call that returns, with
\* INVALID_ARGUMENTS or with OK, has released the mutex, which is free
\* whenever no caller is inside; and every caller that waits for the mutex
\* comes to its return
C38_SendIsMutuallyExclusive ==
    /\ [](Cardinality(SendInside) <= 1)
    /\ [](SendContiguous /\ SendInOrder)
    /\ [](SendInside = {} => MutexFree(snd.owner))
    /\ [][\A t \in Callers :
            (snd.pc[t] \in {"reject", "written"} /\ snd'.pc[t] = "idle") =>
                /\ snd'.owner = {}
                /\ snd'.status[t] =
                     IF snd.pc[t] = "reject"
                     THEN LD2420_STATUS_ERROR_INVALID_ARGUMENTS
                     ELSE LD2420_STATUS_OK]_vars
    /\ \A t \in Callers : (snd.pc[t] # "idle") ~> (snd.pc[t] = "idle")

\* Caller 2 found the mutex taken by a call of caller 1 that returned
\* INVALID_ARGUMENTS, has entered since and is half way through its buffer
C38_Witness ==
    /\ snd.waited[2]
    /\ snd.done[1] = 1
    /\ snd.status[1] = LD2420_STATUS_ERROR_INVALID_ARGUMENTS
    /\ snd.pc[2] = "write"
    /\ snd.sent[2] = 1
    /\ snd.owner = {2}

====
